---- MODULE Spec2Model ----
(***************************************************************************)
(* Model of the F1 strategy decision pipeline.                             *)
(*                                                                         *)
(*   InputValidator   src/src/validators/input_validator.py                *)
(*   F1StrategyAgent  src/src/rag/agent.py                                 *)
(*   ScenarioEmbedder src/src/rag/embeddings.py                            *)
(*   VectorDatabase   src/src/rag/vectordb.py                              *)
(*   F1StrategyRAG    src/src/rag/engine_v2.py                             *)
(*                                                                         *)
(* A scenario is a Python dict: it is modelled as a function whose DOMAIN  *)
(* is the set of keys that are present, so `"lap" in scenario` is          *)
(* "lap" \in DOMAIN scenario.  Free-text fields that the code searches     *)
(* with `in` (weather condition, race_state) are sequences of characters;  *)
(* texts the code only builds (rationale, warning, error messages) are     *)
(* strings.  Confidence scores are kept in hundredths (0.85 is 85).        *)
(***************************************************************************)
EXTENDS Integers, Sequences, FiniteSets, TLC

VARIABLES
    scenario,   \* the scenario dict handed to the call
    op,         \* "none" before the call, afterwards the method that ran
    args,       \* positional arguments of a direct validator call
    result,     \* what the call returned or raised
    collection, \* VectorDatabase.collection: the stored entries, oldest first
    model       \* ScenarioEmbedder.model: the sentence encoder that was loaded

vars == <<scenario, op, args, result, collection, model>>

-----------------------------------------------------------------------------
(* Python text primitives                                                  *)

UpperAlphabet == <<"A", "B", "C", "D", "E", "F", "G", "H", "I", "J", "K", "L", "M",
                   "N", "O", "P", "Q", "R", "S", "T", "U", "V", "W", "X", "Y", "Z">>
LowerAlphabet == <<"a", "b", "c", "d", "e", "f", "g", "h", "i", "j", "k", "l", "m",
                   "n", "o", "p", "q", "r", "s", "t", "u", "v", "w", "x", "y", "z">>

\* str.lower() on one character
LowerChar(c) ==
    IF \E i \in 1..Len(UpperAlphabet) : UpperAlphabet[i] = c
    THEN LowerAlphabet[CHOOSE i \in 1..Len(UpperAlphabet) : UpperAlphabet[i] = c]
    ELSE c

\* str.lower()
Lower(s) == [i \in 1..Len(s) |-> LowerChar(s[i])]

\* `sub in s` for two texts
Contains(sub, s) ==
    \E i \in 1..(Len(s) - Len(sub) + 1) : SubSeq(s, i, i + Len(sub) - 1) = sub

\* the text as it appears inside an f-string
RECURSIVE Str(_)
Str(s) == IF s = <<>> THEN "" ELSE Head(s) \o Str(Tail(s))

\* dict.get(key, default)
Get(d, key, default) == IF key \in DOMAIN d THEN d[key] ELSE default

\* the value dict.get(key) gives for a missing text key, as f-strings print it
None == "None"

\* truth value of a text-or-None value (`if compound and ...`)
Truthy(v) == v # None /\ v # ""

-----------------------------------------------------------------------------
(* Keywords the code searches for                                          *)

kw_heavy_rain == <<"h", "e", "a", "v", "y", "_", "r", "a", "i", "n">>
kw_rain == <<"r", "a", "i", "n">>
kw_wet == <<"w", "e", "t">>
kw_dry == <<"d", "r", "y">>
kw_heavy == <<"h", "e", "a", "v", "y">>
kw_safety == <<"s", "a", "f", "e", "t", "y">>
kw_sc == <<"s", "c">>
kw_changing == <<"c", "h", "a", "n", "g", "i", "n", "g">>
kw_mixed == <<"m", "i", "x", "e", "d">>
kw_drizzle == <<"d", "r", "i", "z", "z", "l", "e">>
kw_damp == <<"d", "a", "m", "p">>
txt_unknown == <<"u", "n", "k", "n", "o", "w", "n">>

-----------------------------------------------------------------------------
(* InputValidator                                                          *)

VALID_COMPOUNDS == <<"SOFT", "MEDIUM", "HARD", "INTERMEDIATE", "WET">>

VALID_COMPOUNDS_repr == "['SOFT', 'MEDIUM', 'HARD', 'INTERMEDIATE', 'WET']"

MAX_TIRE_AGE == 100

MAX_RACE_LAPS == 80

InList(x, list) == \E i \in 1..Len(list) : list[i] = x

\* lines 39-44: the compound check
compound_errors(tires) ==
    LET compound == Get(tires, "compound", None)
    IN  IF Truthy(compound) /\ ~InList(compound, VALID_COMPOUNDS)
        THEN <<"Invalid tire compound: '" \o compound \o "'. Valid compounds: "
               \o VALID_COMPOUNDS_repr>>
        ELSE <<>>

\* lines 47-55: the tire age check (`tire_age is not None` is the key being there)
tire_age_errors(tires) ==
    IF "age_laps" \in DOMAIN tires
    THEN LET tire_age == tires["age_laps"]
         IN  IF tire_age < 0
             THEN <<"Tire age cannot be negative: " \o ToString(tire_age)>>
             ELSE IF tire_age > MAX_TIRE_AGE
             THEN <<"Tire age (" \o ToString(tire_age)
                    \o " laps) exceeds maximum realistic age ("
                    \o ToString(MAX_TIRE_AGE) \o " laps)">>
             ELSE <<>>
    ELSE <<>>

\* lines 58-66: the lap check
lap_errors(s) ==
    IF "lap" \in DOMAIN s
    THEN LET lap == s["lap"]
         IN  IF lap < 1
             THEN <<"Lap number must be positive: " \o ToString(lap)>>
             ELSE IF lap > MAX_RACE_LAPS
             THEN <<"Lap " \o ToString(lap) \o " exceeds maximum race distance ("
                    \o ToString(MAX_RACE_LAPS) \o ")">>
             ELSE <<>>
    ELSE <<>>

\* InputValidator.validate_scenario: (is_valid, list_of_errors)
validate_scenario(s) ==
    LET tire_errors == IF "tires" \in DOMAIN s
                       THEN compound_errors(s["tires"]) \o tire_age_errors(s["tires"])
                       ELSE <<>>
        errors == tire_errors \o lap_errors(s)
    IN  [is_valid |-> Len(errors) = 0, errors |-> errors]

\* the condition searched as spelled
condition_as_given(weather_condition) == weather_condition

\* line 80: the text that is searched; the warning keeps the caller's spelling
condition_lower(weather_condition) == Lower(weather_condition)

\* InputValidator.validate_weather_tire_compatibility: (is_compatible, warning)
validate_weather_tire_compatibility(tire_compound, weather_condition) ==
    LET lowered == condition_lower(weather_condition)
        dangerous_conditions == <<kw_heavy_rain, kw_rain, kw_wet>>
    IN  IF /\ InList(tire_compound, <<"SOFT", "MEDIUM", "HARD">>)
           /\ \E i \in 1..Len(dangerous_conditions) :
                  Contains(dangerous_conditions[i], lowered)
        THEN [is_compatible |-> FALSE,
              warning |-> "DANGER: Slick tires (" \o tire_compound \o ") in "
                          \o Str(weather_condition)
                          \o " conditions. Must change to INTERMEDIATE or WET."]
        ELSE IF /\ InList(tire_compound, <<"INTERMEDIATE", "WET">>)
                /\ Contains(kw_dry, lowered)
        THEN LET severity == IF tire_compound = "WET" THEN "CRITICAL" ELSE "WARNING"
             IN  [is_compatible |-> FALSE,
                  warning |-> severity \o ": " \o tire_compound
                              \o " tires will overheat on dry track. "
                              \o "Must change to slick compound."]
        ELSE [is_compatible |-> TRUE, warning |-> ""]

-----------------------------------------------------------------------------
(* F1StrategyAgent                                                         *)

version == "v0.3.2-sc-vsc-final-laps"

\* the tuple of a rule with its rationale left empty
Decision_without_rationale(decision, rationale, confidence, risk) ==
    [decision |-> decision, rationale |-> "",
     confidence |-> confidence, risk |-> risk]

Decision(decision, rationale, confidence, risk) ==
    [decision |-> decision, rationale |-> rationale,
     confidence |-> confidence, risk |-> risk]

\* the threshold lap itself left out
is_final_laps_strict(lap) == lap > 58

\* line 134: the heuristic for "final laps" without knowing total_laps
is_final_laps(lap) == lap >= 58

\* the safety car rule without its tire age test
safety_car_opportunity_any_age(race_state, tire_age) ==
    Contains(kw_safety, race_state) \/ Contains(kw_sc, race_state)

\* lines 146-149: Safety Car or VSC with tires past the early stint
safety_car_opportunity(race_state, tire_age) ==
    /\ Contains(kw_safety, race_state) \/ Contains(kw_sc, race_state)
    /\ tire_age >= 15

\* `gaps.get(k1) or gaps.get(k2) or ... or 0`: the first value that is truthy
RECURSIVE first_truthy_gap(_, _)
first_truthy_gap(gaps, keys) ==
    IF keys = <<>> THEN 0
    ELSE IF Head(keys) \in DOMAIN gaps /\ gaps[Head(keys)] # 0
    THEN gaps[Head(keys)]
    ELSE first_truthy_gap(gaps, Tail(keys))

\* lines 162-167
gap_ahead(gaps) == first_truthy_gap(gaps, <<"to_p1", "to_p2", "to_p3">>)

\* lines 168-173
gap_behind(gaps) == first_truthy_gap(gaps, <<"to_p4", "to_p5", "to_p6">>)

\* the free pit stop window with the gap threshold met at exactly 14 s
free_pit_stop_inclusive(s, lap) ==
    /\ "gaps" \in DOMAIN s
    /\ lap > 40
    /\ lap < 58
    /\ gap_ahead(s["gaps"]) >= 14
    /\ gap_behind(s["gaps"]) >= 14

\* lines 158 and 176: the free pit stop window
free_pit_stop(s, lap) ==
    /\ "gaps" \in DOMAIN s
    /\ lap > 40
    /\ lap < 58
    /\ gap_ahead(s["gaps"]) > 14
    /\ gap_behind(s["gaps"]) > 14

\* the fresh-tire test off by one lap
is_fresh_tire_off_by_one(tire_age) == tire_age = 1

\* line 184
is_fresh_tire(tire_age) == tire_age = 0

\* the 30th lap left out
is_expired_tire_strict(tire_age) == tire_age > 30

\* line 193
is_expired_tire(tire_age) == tire_age >= 30

\* F1StrategyAgent._is_weather_changing
\* the keyword list of line 250 without its last entry
_is_weather_changing_without_damp(weather) ==
    LET condition == Lower(Get(weather, "condition", <<>>))
        changing_keywords == <<kw_changing, kw_mixed, kw_drizzle>>
    IN  \E i \in 1..Len(changing_keywords) : Contains(changing_keywords[i], condition)

_is_weather_changing(weather) ==
    LET condition == Lower(Get(weather, "condition", <<>>))
        changing_keywords == <<kw_changing, kw_mixed, kw_drizzle, kw_damp>>
    IN  \E i \in 1..Len(changing_keywords) : Contains(changing_keywords[i], condition)

\* line 222: a safe gap to pit at the end of the window
safe_gap_to_pit(s) == "gaps" \in DOMAIN s /\ Get(s["gaps"], "to_p4", 0) > 10

\* `{x:.1f}` for the whole seconds the scenarios carry
OneDecimal(x) == ToString(x) \o ".0"

\* F1StrategyAgent._make_decision: (decision, rationale, confidence, risk)
_make_decision(lap, tire_age, tire_compound, weather, s) ==
    LET race_state == Lower(Get(s, "race_state", <<>>))
    IN  IF is_final_laps(lap)
        THEN Decision("STAY_OUT",
                 "Final laps of race (L" \o ToString(lap)
                 \o "). Position priority over tire condition. "
                 \o "No time to benefit from pit stop.",
                 85, "MEDIUM")
        ELSE IF safety_car_opportunity(race_state, tire_age)
        THEN Decision("BOX",
                 "Safety Car/VSC opportunity. " \o tire_compound \o " at "
                 \o ToString(tire_age) \o " laps ready for change. Pit time loss negated.",
                 90, "LOW")
        ELSE IF free_pit_stop(s, lap)
        THEN Decision("BOX",
                 "Free pit stop opportunity. P" \o Get(s, "position", "X")
                 \o " secured with " \o OneDecimal(gap_ahead(s["gaps"])) \o "s ahead, "
                 \o OneDecimal(gap_behind(s["gaps"]))
                 \o "s behind. Attack fastest lap point with fresh tires.",
                 90, "LOW")
        ELSE IF is_fresh_tire(tire_age)
        THEN Decision("STAY_OUT",
                 "Fresh " \o tire_compound \o " tires optimal for opening stint. "
                 \o "Track position critical at race start.",
                 90, "LOW")
        ELSE IF is_expired_tire(tire_age)
        THEN Decision("BOX",
                 tire_compound \o " tires at " \o ToString(tire_age)
                 \o " laps - past optimal window. Degradation critical.",
                 85, "MEDIUM")
        ELSE IF _is_weather_changing(weather)
        THEN Decision("BOX",
                 "Weather changing to " \o Str(weather["condition"])
                 \o ". Tire compound change required.",
                 80, "MEDIUM")
        ELSE IF 10 <= tire_age /\ tire_age <= 25
        THEN Decision("STAY_OUT",
                 tire_compound \o " tires at " \o ToString(tire_age)
                 \o " laps - within optimal window. Maintain strategy.",
                 75, "LOW")
        ELSE IF 26 <= tire_age /\ tire_age <= 29
        THEN IF safe_gap_to_pit(s)
             THEN Decision("BOX",
                      tire_compound \o " approaching end of optimal window. "
                      \o "Safe gap allows pit stop.",
                      70, "MEDIUM")
             ELSE Decision("STAY_OUT",
                      tire_compound \o " near end of window but no safe gap to pit. "
                      \o "Extend stint.",
                      65, "MEDIUM")
        ELSE Decision("STAY_OUT",
                 "Standard strategy for " \o tire_compound \o " at "
                 \o ToString(tire_age) \o " laps.",
                 70, "MEDIUM")

\* the search done on the caller's spelling
is_heavy_case_sensitive(weather_condition) == Contains(kw_heavy, weather_condition)

\* line 81: heavy rain asks for the full wet tire
is_heavy(weather_condition) == Contains(kw_heavy, Lower(weather_condition))

\* F1StrategyAgent._handle_dangerous_situation
_handle_dangerous_situation(current_compound, weather_condition, warning, s) ==
    IF InList(current_compound, <<"SOFT", "MEDIUM", "HARD">>)
    THEN [decision |-> "BOX",
          compound |-> IF is_heavy(weather_condition) THEN "WET" ELSE "INTERMEDIATE",
          rationale |-> warning \o " Immediate tire change required for safety.",
          confidence_score |-> 98,
          risk_level |-> "HIGH",
          model_version |-> version,
          warning |-> warning]
    ELSE IF InList(current_compound, <<"INTERMEDIATE", "WET">>)
    THEN [decision |-> "BOX",
          compound |-> "MEDIUM",
          rationale |-> warning \o " Tire overheating risk. Change to slicks.",
          confidence_score |-> 95,
          risk_level |-> "MEDIUM",
          model_version |-> version,
          warning |-> warning]
    ELSE [decision |-> "BOX",
          compound |-> "MEDIUM",
          rationale |-> warning,
          confidence_score |-> 50,
          risk_level |-> "HIGH",
          model_version |-> version]

\* class ScenarioValidationError(ValueError); KeyError is the built-in LookupError
exception_bases(exc) ==
    IF exc = "ScenarioValidationError"
    THEN {"ScenarioValidationError", "ValueError", "Exception"}
    ELSE {"KeyError", "LookupError", "Exception"}

Returned(value, calls) == [kind |-> "return", value |-> value, calls |-> calls]

Raised(exc, detail, calls) == [kind |-> "raise", exc |-> exc, detail |-> detail, calls |-> calls]

\* only the first error kept in the message
validation_message_first_only(errors) ==
    <<"Invalid scenario data:", "  - " \o errors[1]>>

\* lines 31-33: "Invalid scenario data:\n" + "\n".join(f"  - {e}" ...), line by line
validation_message(errors) ==
    <<"Invalid scenario data:">> \o [i \in 1..Len(errors) |-> "  - " \o errors[i]]

\* lines 36-40: the subscripts scenario["lap"], scenario["tires"],
\* tires["age_laps"], tires["compound"], scenario["weather"], in that order;
\* the first key that is missing is the KeyError
missing_key(s) ==
    IF "lap" \notin DOMAIN s THEN "lap"
    ELSE IF "tires" \notin DOMAIN s THEN "tires"
    ELSE IF "age_laps" \notin DOMAIN s["tires"] THEN "age_laps"
    ELSE IF "compound" \notin DOMAIN s["tires"] THEN "compound"
    ELSE IF "weather" \notin DOMAIN s THEN "weather"
    ELSE "none"

\* lines 39-46: the compatibility check on the extracted compound and condition
compatibility_of(s) ==
    validate_weather_tire_compatibility(
        s["tires"]["compound"], Get(s["weather"], "condition", txt_unknown))

\* lines 48-52: the dangerous situation overrides the normal logic
override_result(s) ==
    Returned(
        _handle_dangerous_situation(
            s["tires"]["compound"], Get(s["weather"], "condition", txt_unknown),
            compatibility_of(s).warning, s),
        <<"validate_scenario", "validate_weather_tire_compatibility",
          "_handle_dangerous_situation">>)

\* lines 54-66: the normal decision logic and the record built from it
normal_result(s) ==
    LET made == _make_decision(s["lap"], s["tires"]["age_laps"],
                               s["tires"]["compound"], s["weather"], s)
    IN  Returned(
            [decision |-> made.decision,
             compound |-> s["tires"]["compound"],
             rationale |-> made.rationale,
             confidence_score |-> made.confidence,
             risk_level |-> made.risk,
             model_version |-> version],
            <<"validate_scenario", "validate_weather_tire_compatibility",
              "_make_decision">>)

\* the override evaluated only after the final-laps rule
generate_strategy_override_last(s) ==
    LET validation == validate_scenario(s)
    IN  IF ~validation.is_valid
        THEN Raised("ScenarioValidationError", validation_message(validation.errors),
                    <<"validate_scenario">>)
        ELSE IF missing_key(s) # "none"
        THEN Raised("KeyError", <<missing_key(s)>>, <<"validate_scenario">>)
        ELSE IF is_final_laps(s["lap"]) \/ compatibility_of(s).is_compatible
        THEN normal_result(s)
        ELSE override_result(s)

\* F1StrategyAgent.generate_strategy
generate_strategy(s) ==
    LET validation == validate_scenario(s)
    IN  IF ~validation.is_valid
        THEN Raised("ScenarioValidationError", validation_message(validation.errors),
                    <<"validate_scenario">>)
        ELSE IF missing_key(s) # "none"
        THEN Raised("KeyError", <<missing_key(s)>>, <<"validate_scenario">>)
        ELSE IF ~compatibility_of(s).is_compatible
        THEN override_result(s)
        ELSE normal_result(s)

-----------------------------------------------------------------------------
(* The scenarios the calls are given                                       *)

\* how far past each threshold of the code the lap and tire age inputs reach
LapSlack == 0

AgeSlack == 0

Near(t, slack) == (t - 1)..(t + slack)

\* laps on both sides of `lap < 1`, `lap > 40`, `lap >= 58` and `lap > MAX_RACE_LAPS`
LapInputs == UNION {Near(t, LapSlack) : t \in {1, 41, 58, MAX_RACE_LAPS + 1}}

\* tire ages on both sides of `< 0`, `== 0`, `10 <=`, `>= 15`, `<= 25`, `26 <=`,
\* `<= 29`, `>= 30` and `> MAX_TIRE_AGE`
AgeInputs == UNION {Near(t, AgeSlack) : t \in {0, 10, 15, 26, 30, MAX_TIRE_AGE + 1}}

\* the five compounds, one that does not exist and the empty text
CompoundInputs == {"SOFT", "MEDIUM", "HARD", "INTERMEDIATE", "WET", "HYPERSOFT", ""}

txt_dry == <<"d", "r", "y">>
txt_rain == <<"r", "a", "i", "n">>
txt_heavy_rain == <<"h", "e", "a", "v", "y", "_", "r", "a", "i", "n">>
txt_Heavy_Rain == <<"H", "e", "a", "v", "y", " ", "R", "a", "i", "n">>
txt_damp == <<"d", "a", "m", "p">>
txt_wet == <<"w", "e", "t">>
txt_DRY == <<"D", "R", "Y">>
txt_drying == <<"d", "r", "y", "i", "n", "g">>
txt_light_rain == <<"l", "i", "g", "h", "t", "_", "r", "a", "i", "n">>
txt_cloudy == <<"c", "l", "o", "u", "d", "y">>
txt_racing == <<"r", "a", "c", "i", "n", "g">>
txt_safety_car == <<"s", "a", "f", "e", "t", "y", "_", "c", "a", "r">>
txt_vsc == <<"v", "s", "c">>
txt_Safety_Car == <<"S", "a", "f", "e", "t", "y", " ", "C", "a", "r">>

\* weather conditions of the scenarios
ConditionInputs == {txt_dry, txt_rain, txt_heavy_rain, txt_Heavy_Rain, txt_damp}

\* weather conditions of the direct compatibility calls
CompatibilityConditionInputs ==
    ConditionInputs \cup {txt_wet, txt_DRY, txt_drying, txt_light_rain, txt_cloudy,
                          txt_unknown, <<>>}

RaceStateInputs == {txt_racing, txt_safety_car, txt_vsc, txt_Safety_Car}

GapInputs ==
    { <<>>,
      [to_p1 |-> 15, to_p4 |-> 15],
      [to_p1 |-> 14, to_p4 |-> 15],
      [to_p2 |-> 15, to_p5 |-> 15] }

\* a tires dict: empty, with one of its keys, or with both
TireInputs ==
    {<<>>, [compound |-> "MEDIUM"], [age_laps |-> 15]}
    \cup {[compound |-> c, age_laps |-> a] : c \in CompoundInputs, a \in AgeInputs}

WeatherInputs == {<<>>} \cup {[condition |-> c] : c \in ConditionInputs}

\* a key that may be missing
Optional(key, values) == {<<>>} \cup {key :> v : v \in values}

\* what validate_scenario reads: lap and tires
ValidatorScenarios ==
    {l @@ t : l \in Optional("lap", LapInputs), t \in Optional("tires", TireInputs)}

Scenarios ==
    {v @@ w @@ r @@ g :
        v \in ValidatorScenarios,
        w \in Optional("weather", WeatherInputs),
        r \in Optional("race_state", RaceStateInputs),
        g \in Optional("gaps", GapInputs)}

-----------------------------------------------------------------------------
(* Calls                                                                   *)

Init ==
    /\ scenario \in Scenarios
    /\ op = "none"
    /\ args = <<>>
    /\ result = <<>>
    /\ collection = <<>>
    /\ model = <<>>

\* agent.generate_strategy(scenario)
GenerateStrategy ==
    /\ op = "none"
    /\ op' = "generate_strategy"
    /\ result' = generate_strategy(scenario)
    /\ UNCHANGED <<scenario, args, collection, model>>

Next == GenerateStrategy

Spec == Init /\ [][Next]_vars

InitValidator ==
    /\ scenario \in ValidatorScenarios
    /\ op = "none"
    /\ args = <<>>
    /\ result = <<>>
    /\ collection = <<>>
    /\ model = <<>>

\* InputValidator.validate_scenario(scenario)
ValidateScenario ==
    /\ op = "none"
    /\ op' = "validate_scenario"
    /\ result' = validate_scenario(scenario)
    /\ UNCHANGED <<scenario, args, collection, model>>

\* InputValidator.validate_weather_tire_compatibility(tire_compound, weather_condition)
ValidateWeatherTireCompatibility ==
    /\ op = "none"
    /\ \E c \in CompoundInputs, w \in CompatibilityConditionInputs :
           /\ args' = <<c, w>>
           /\ result' = validate_weather_tire_compatibility(c, w)
    /\ op' = "validate_weather_tire_compatibility"
    /\ UNCHANGED <<scenario, collection, model>>

NextValidator == ValidateScenario \/ ValidateWeatherTireCompatibility

SpecValidator == InitValidator /\ [][NextValidator]_vars

\* gaps dicts around the free pit stop rule: either side at 14 s or 15 s, given
\* under the first, second or third key, one side missing, a value of 0
WindowGapInputs ==
    { <<>>,
      [to_p1 |-> 15, to_p4 |-> 15],
      [to_p1 |-> 14, to_p4 |-> 15],
      [to_p1 |-> 15, to_p4 |-> 14],
      [to_p2 |-> 15, to_p5 |-> 15],
      [to_p3 |-> 15, to_p6 |-> 15],
      [to_p1 |-> 15],
      [to_p4 |-> 15],
      [to_p1 |-> 14, to_p2 |-> 15, to_p4 |-> 15],
      [to_p1 |-> 15, to_p4 |-> 14, to_p5 |-> 15],
      [to_p1 |-> 0, to_p2 |-> 15, to_p4 |-> 0, to_p6 |-> 15] }

\* scenarios with every field the rules read, for the rules that read gaps
WindowScenarios ==
    {[lap |-> l, tires |-> [compound |-> c, age_laps |-> a],
      weather |-> [condition |-> w]] @@ r @@ g :
        l \in LapInputs, c \in {"MEDIUM", "INTERMEDIATE"}, a \in AgeInputs,
        w \in {txt_dry, txt_rain},
        r \in Optional("race_state", {txt_racing, txt_safety_car}),
        g \in Optional("gaps", WindowGapInputs)}

InitWindow ==
    /\ scenario \in WindowScenarios
    /\ op = "none"
    /\ args = <<>>
    /\ result = <<>>
    /\ collection = <<>>
    /\ model = <<>>

SpecWindow == InitWindow /\ [][Next]_vars

-----------------------------------------------------------------------------
(* Properties of the Rule Engine (Spec)                                    *)

Called == op = "generate_strategy"

\* the scenario passes validate_scenario
Valid == validate_scenario(scenario).is_valid

\* the scenario carries the fields generate_strategy subscripts
HasRuleFields ==
    /\ {"lap", "tires", "weather"} \subseteq DOMAIN scenario
    /\ {"compound", "age_laps"} \subseteq DOMAIN scenario["tires"]

Lap == scenario["lap"]
TireAge == scenario["tires"]["age_laps"]
Compound == scenario["tires"]["compound"]
Condition == Get(scenario["weather"], "condition", txt_unknown)
RaceState == Lower(Get(scenario, "race_state", <<>>))

Compatible == validate_weather_tire_compatibility(Compound, Condition).is_compatible

IsSlick == Compound \in {"SOFT", "MEDIUM", "HARD"}

\* rule 5 of the table: lap in (40, 58) with both nearest gaps above 14 s
FreeWindow ==
    /\ "gaps" \in DOMAIN scenario
    /\ 40 < Lap /\ Lap < 58
    /\ gap_ahead(scenario["gaps"]) > 14
    /\ gap_behind(scenario["gaps"]) > 14

Decided(decision) == result.kind = "return" /\ result.value.decision = decision

\* C1 as stated: every scenario that passes validation and has tire age 0 gets
\* STAY_OUT with confidence >= 0.85, whatever its lap, compound, weather,
\* race_state and gaps.
C1_AsStated ==
    (Called /\ Valid /\ HasRuleFields /\ TireAge = 0)
        => (Decided("STAY_OUT") /\ result.value.confidence_score >= 85)

\* C1 amended: a valid scenario with tire age 0 gets STAY_OUT with confidence
\* >= 0.85 when its compound and weather are compatible and the free pit-stop
\* window (40 < lap < 58, both nearest gaps > 14 s) does not apply.
C1_FreshTireStaysOut ==
    (Called /\ Valid /\ HasRuleFields /\ TireAge = 0 /\ Compatible /\ ~FreeWindow)
        => (Decided("STAY_OUT") /\ result.value.confidence_score >= 85)

C1_Witness ==
    /\ Called /\ Valid /\ HasRuleFields /\ TireAge = 0 /\ Compatible /\ ~FreeWindow
    /\ Lap = 41
    /\ Contains(kw_safety, RaceState)
    /\ "gaps" \in DOMAIN scenario /\ gap_ahead(scenario["gaps"]) = 14
    /\ Decided("STAY_OUT")
    /\ result.value.confidence_score = 90

\* C2: the incompatibility override short-circuits every later rule: a valid
\* scenario whose compound and weather are reported incompatible gets BOX with
\* confidence >= 0.95 and a warning, whatever its lap, tire age, race_state
\* and gaps.
C2_OverrideShortCircuits ==
    (Called /\ Valid /\ HasRuleFields /\ ~Compatible)
        => /\ Decided("BOX")
           /\ result.value.confidence_score >= 95
           /\ "warning" \in DOMAIN result.value
           /\ result.value.warning # ""
           /\ "_make_decision" \notin {result.calls[i] : i \in DOMAIN result.calls}

C2_Witness ==
    /\ Called /\ Valid /\ HasRuleFields /\ ~Compatible
    /\ Lap >= 58
    /\ TireAge = 0
    /\ Decided("BOX")

\* C3 as stated: on the override path a slick compound yields WET when the
\* condition contains "heavy_rain" and INTERMEDIATE for any other incompatible
\* condition, both with risk HIGH; INTERMEDIATE or WET on a condition
\* containing "dry" yields MEDIUM with risk MEDIUM.
C3_AsStated ==
    (Called /\ Valid /\ HasRuleFields /\ ~Compatible)
        => /\ result.kind = "return"
           /\ IsSlick =>
                /\ result.value.risk_level = "HIGH"
                /\ result.value.compound =
                       IF Contains(kw_heavy_rain, Lower(Condition))
                       THEN "WET" ELSE "INTERMEDIATE"
           /\ ~IsSlick =>
                /\ result.value.risk_level = "MEDIUM"
                /\ result.value.compound = "MEDIUM"

\* C3 amended: on the override path a slick compound yields WET when the
\* condition, lower-cased, contains "heavy" and INTERMEDIATE for any other
\* incompatible condition, both with risk HIGH; INTERMEDIATE or WET on a
\* condition containing "dry" yields MEDIUM with risk MEDIUM.
C3_OverrideCompound ==
    (Called /\ Valid /\ HasRuleFields /\ ~Compatible)
        => /\ result.kind = "return"
           /\ IsSlick =>
                /\ result.value.risk_level = "HIGH"
                /\ result.value.compound =
                       IF Contains(kw_heavy, Lower(Condition))
                       THEN "WET" ELSE "INTERMEDIATE"
           /\ ~IsSlick =>
                /\ result.value.risk_level = "MEDIUM"
                /\ result.value.compound = "MEDIUM"

C3_Witness ==
    /\ Called /\ Valid /\ HasRuleFields /\ ~Compatible
    /\ IsSlick
    /\ Condition = txt_Heavy_Rain
    /\ result.kind = "return"
    /\ result.value.compound = "WET"
    /\ result.value.risk_level = "HIGH"

C6_ValidationFirst ==
    (Called /\ ~Valid)
        => /\ result.kind = "raise"
           /\ result.exc = "ScenarioValidationError"
           /\ "ValueError" \in exception_bases(result.exc)
           /\ LET errors == validate_scenario(scenario).errors
              IN  \A i \in 1..Len(errors) :
                     \E j \in 1..Len(result.detail) :
                        result.detail[j] = "  - " \o errors[i]
           /\ result.calls = <<"validate_scenario">>

C6_Witness ==
    /\ Called /\ ~Valid
    /\ Len(validate_scenario(scenario).errors) = 3
    /\ "weather" \notin DOMAIN scenario
    /\ result.kind = "raise"
    /\ result.exc = "ScenarioValidationError"

\* C10 as stated: safety-car exploitation: a valid scenario with lap < 58,
\* tire age >= 15, a race_state containing "safety" or "sc" and no
\* incompatibility (the weather compatible, or not given at all) gets BOX with
\* risk LOW and confidence 0.90.
C10_AsStated ==
    (/\ Called /\ Valid
     /\ "lap" \in DOMAIN scenario /\ "tires" \in DOMAIN scenario
     /\ {"compound", "age_laps"} \subseteq DOMAIN scenario["tires"]
     /\ InList(Compound, VALID_COMPOUNDS)
     /\ Lap < 58
     /\ TireAge >= 15
     /\ Contains(kw_safety, RaceState) \/ Contains(kw_sc, RaceState)
     /\ "weather" \in DOMAIN scenario => Compatible)
        => /\ Decided("BOX")
           /\ result.value.risk_level = "LOW"
           /\ result.value.confidence_score = 90

-----------------------------------------------------------------------------
(* Properties of the Scenario Validator (SpecValidator)                    *)

\* the three checks as the design states them
FailsCompoundCheck ==
    /\ "tires" \in DOMAIN scenario
    /\ "compound" \in DOMAIN scenario["tires"]
    /\ scenario["tires"]["compound"] \notin {"SOFT", "MEDIUM", "HARD", "INTERMEDIATE", "WET"}

FailsAgeCheck ==
    /\ "tires" \in DOMAIN scenario
    /\ "age_laps" \in DOMAIN scenario["tires"]
    /\ scenario["tires"]["age_laps"] < 0 \/ scenario["tires"]["age_laps"] > 100

FailsLapCheck ==
    /\ "lap" \in DOMAIN scenario
    /\ scenario["lap"] < 1 \/ scenario["lap"] > 80

FailedChecks ==
    (IF FailsCompoundCheck THEN 1 ELSE 0) + (IF FailsAgeCheck THEN 1 ELSE 0)
    + (IF FailsLapCheck THEN 1 ELSE 0)

\* C7 as stated: the three checks are independent and every failure is
\* collected: a scenario failing n of them yields exactly n errors, and ok
\* holds iff the error list is empty.
C7_AsStated ==
    op = "validate_scenario"
        => /\ Len(result.errors) = FailedChecks
           /\ result.is_valid <=> (result.errors = <<>>)

\* C8 as stated: a scenario is accepted exactly when its compound, if present,
\* is one of the five, its tire age, if present, is in 0..100 and its lap, if
\* present, is in 1..80.
C8_AsStated ==
    op = "validate_scenario"
        => (result.is_valid <=> ~(FailsCompoundCheck \/ FailsAgeCheck \/ FailsLapCheck))

\* C9: the compatibility check reports incompatible exactly for a slick
\* compound with a condition containing "heavy_rain", "rain" or "wet" and for
\* INTERMEDIATE or WET with a condition containing "dry", matched
\* case-insensitively; compatible holds iff the warning is empty.
C9_CompatibilityCases ==
    op = "validate_weather_tire_compatibility"
        => LET c == args[1]
               w == Lower(args[2])
           IN  /\ ~result.is_compatible <=>
                      \/ /\ c \in {"SOFT", "MEDIUM", "HARD"}
                         /\ \/ Contains(kw_heavy_rain, w)
                            \/ Contains(kw_rain, w)
                            \/ Contains(kw_wet, w)
                      \/ /\ c \in {"INTERMEDIATE", "WET"}
                         /\ Contains(kw_dry, w)
               /\ result.is_compatible <=> (result.warning = "")

C9_Witness ==
    /\ op = "validate_weather_tire_compatibility"
    /\ args = <<"WET", txt_DRY>>
    /\ ~result.is_compatible
    /\ result.warning # ""

-----------------------------------------------------------------------------
(* Properties of the free pit stop window (SpecWindow)                     *)

\* the first gap given under one of the keys, 0 when none is; a value of 0
\* stands for a gap that is not known
RECURSIVE NearestGap(_, _)
NearestGap(gaps, keys) ==
    IF keys = <<>> THEN 0
    ELSE IF Head(keys) \in DOMAIN gaps /\ gaps[Head(keys)] # 0
    THEN gaps[Head(keys)]
    ELSE NearestGap(gaps, Tail(keys))

\* the validation gate, the override, the final laps rule and the safety car
\* rule all let the scenario through
ReachesFreeWindowRule ==
    /\ Valid /\ HasRuleFields /\ Compatible
    /\ Lap < 58
    /\ ~safety_car_opportunity(RaceState, TireAge)

BothGapsAbove14 ==
    /\ "gaps" \in DOMAIN scenario
    /\ NearestGap(scenario["gaps"], <<"to_p1", "to_p2", "to_p3">>) > 14
    /\ NearestGap(scenario["gaps"], <<"to_p4", "to_p5", "to_p6">>) > 14

BoxLow == Decided("BOX") /\ result.value.risk_level = "LOW"

\* C11: for a valid scenario that the override, the final laps rule and the
\* safety car rule let through, generate_strategy returns BOX with risk LOW
\* exactly when 40 < lap < 58 and the nearest gap ahead (first given of to_p1,
\* to_p2, to_p3) and the nearest gap behind (first given of to_p4, to_p5,
\* to_p6) are both above 14 s; a gap of exactly 14, no gaps mapping, or lap 40
\* or 58 does not give it.
C11_FreePitStopWindow ==
    (Called /\ Valid /\ HasRuleFields /\ Compatible
        /\ ~safety_car_opportunity(RaceState, TireAge))
        => (BoxLow <=> (40 < Lap /\ Lap < 58 /\ BothGapsAbove14))

C11_Witness ==
    /\ Called /\ ReachesFreeWindowRule
    /\ Lap = 57
    /\ "gaps" \in DOMAIN scenario
    /\ scenario["gaps"] = [to_p3 |-> 15, to_p6 |-> 15]
    /\ BoxLow
    /\ result.value.confidence_score = 90

-----------------------------------------------------------------------------
(* ScenarioEmbedder (embeddings.py)                                        *)
(*                                                                         *)
(* Feature values are kept in units of 1/Unit, so that every quotient the  *)
(* code takes is a whole number: 1.0 is Unit.                              *)

\* least common multiple of the denominators 50, 4, 70, 20, 60, 6 and 5
Unit == 4 * 3 * 25 * 7

Embedder_MAX_TIRE_AGE == 50
MAX_LAP == 70
MAX_POSITION == 20
MAX_GAP == 60

txt_drizzle == <<"d", "r", "i", "z", "z", "l", "e">>
txt_optimal == <<"o", "p", "t", "i", "m", "a", "l">>
txt_good == <<"g", "o", "o", "d">>
txt_mid_stint == <<"m", "i", "d", "_", "s", "t", "i", "n", "t">>
txt_end_of_optimal_window ==
    <<"e", "n", "d", "_", "o", "f", "_", "o", "p", "t", "i", "m", "a", "l", "_",
      "w", "i", "n", "d", "o", "w">>
txt_high_wear == <<"h", "i", "g", "h", "_", "w", "e", "a", "r">>
txt_critical_wear ==
    <<"c", "r", "i", "t", "i", "c", "a", "l", "_", "w", "e", "a", "r">>
txt_virtual_safety_car ==
    <<"v", "i", "r", "t", "u", "a", "l", "_", "s", "a", "f", "e", "t", "y", "_",
      "c", "a", "r">>
txt_sc == <<"s", "c">>
kw_virtual == <<"v", "i", "r", "t", "u", "a", "l">>
kw_car == <<"c", "a", "r">>

\* dict.get on a table of <<key, value>> pairs
Lookup(table, key, default) ==
    IF \E e \in table : e[1] = key
    THEN (CHOOSE e \in table : e[1] = key)[2]
    ELSE default

COMPOUND_ENCODING ==
    {<<"SOFT", 0>>, <<"MEDIUM", 1>>, <<"HARD", 2>>, <<"INTERMEDIATE", 3>>, <<"WET", 4>>}

WEATHER_ENCODING ==
    {<<txt_dry, 0>>, <<txt_damp, 1>>, <<txt_drizzle, 2>>, <<txt_light_rain, 3>>,
     <<txt_rain, 4>>, <<txt_heavy_rain, 5>>, <<txt_wet, 6>>}

\* tenths: 0.0, 0.2, 0.4, 0.6, 0.8, 1.0
condition_map ==
    {<<txt_optimal, 0>>, <<txt_good, 2>>, <<txt_mid_stint, 4>>,
     <<txt_end_of_optimal_window, 6>>, <<txt_high_wear, 8>>, <<txt_critical_wear, 10>>}

\* min(value / maximum, 1.0)
normalized(value, maximum) ==
    LET q == value * (Unit \div maximum) IN IF q < Unit THEN q ELSE Unit

\* a position is an int or a dict: the value is kept with its Python type
PyInt(n) == [type |-> "int", int |-> n]
PyDict(d) == [type |-> "dict", dict |-> d]

\* lines 140-146: position is an int or a dict with "current"
position_of(s) ==
    LET position_raw == Get(s, "position", PyInt(10)) IN
    IF position_raw.type = "dict"
    THEN Get(position_raw.dict, "current", 10)
    ELSE position_raw.int

\* line 151: gaps.get("to_p2", 0) or gaps.get("to_p1", 0) or gaps.get("to_p3", 0) or 0
embedder_gap_ahead(gaps) == first_truthy_gap(gaps, <<"to_p2", "to_p1", "to_p3">>)

\* line 152: gaps.get("to_p4", 0) or gaps.get("to_p5", 0) or 0
embedder_gap_behind(gaps) == first_truthy_gap(gaps, <<"to_p4", "to_p5">>)

\* lines 163-170
race_phase(lap) ==
    IF lap > 0
    THEN IF lap < 15 THEN 0 ELSE IF lap < 50 THEN Unit \div 2 ELSE Unit
    ELSE 0

\* lines 181-184
is_vsc(race_state) ==
    \/ race_state \in {txt_virtual_safety_car, txt_vsc}
    \/ Contains(kw_virtual, race_state) /\ Contains(kw_safety, race_state)

\* the full safety car test without the `if is_vsc == 0.0` guard
is_sc_unguarded(race_state) ==
    \/ race_state \in {txt_safety_car, txt_sc}
    \/ Contains(kw_safety, race_state) /\ Contains(kw_car, race_state)

\* lines 187-191
is_sc(race_state) ==
    /\ ~is_vsc(race_state)
    /\ \/ race_state \in {txt_safety_car, txt_sc}
       \/ /\ Contains(kw_safety, race_state)
          /\ Contains(kw_car, race_state)
          /\ ~Contains(kw_virtual, race_state)

extract_numerical_features(s) ==
    LET tires == Get(s, "tires", <<>>)
        tire_age == Get(tires, "age_laps", 0)
        compound == Get(tires, "compound", "MEDIUM")
        lap == Get(s, "lap", 0)
        gaps == Get(s, "gaps", <<>>)
        condition == Lower(Get(Get(s, "weather", <<>>), "condition", txt_dry))
        race_state == Lower(Get(s, "race_state", <<>>))
        tire_condition == Lower(Get(tires, "condition", txt_optimal))
    IN  << normalized(tire_age, Embedder_MAX_TIRE_AGE),
           Lookup(COMPOUND_ENCODING, compound, 1) * (Unit \div 4),
           normalized(lap, MAX_LAP),
           normalized(position_of(s), MAX_POSITION),
           normalized(embedder_gap_ahead(gaps), MAX_GAP),
           normalized(embedder_gap_behind(gaps), MAX_GAP),
           Lookup(WEATHER_ENCODING, condition, 0) * (Unit \div 6),
           race_phase(lap),
           IF is_sc(race_state) THEN Unit ELSE 0,
           IF is_vsc(race_state) THEN Unit ELSE 0,
           Lookup(condition_map, tire_condition, 4) * (Unit \div 10) >>

txt_VSC == <<"V", "S", "C">>
txt_SC == <<"S", "C">>
txt_Virtual_Safety_Car ==
    <<"V", "i", "r", "t", "u", "a", "l", " ", "S", "a", "f", "e", "t", "y", " ",
      "C", "a", "r">>
txt_virtual_safety == kw_virtual \o <<"_">> \o kw_safety
txt_safety_car_ending == txt_safety_car \o <<"_", "e", "n", "d", "i", "n", "g">>
txt_yellow_flag == <<"y", "e", "l", "l", "o", "w", "_", "f", "l", "a", "g">>

EmbedderRaceStateInputs ==
    {txt_racing, txt_safety_car, txt_sc, txt_SC, txt_Safety_Car, txt_safety_car_ending,
     txt_vsc, txt_VSC, txt_virtual_safety_car, txt_Virtual_Safety_Car,
     txt_virtual_safety, kw_safety, kw_virtual, kw_car, txt_yellow_flag, <<>>}

\* values below, at and above the range each feature is normalized over
EmbedderAgeInputs == {-1, 0, 25, Embedder_MAX_TIRE_AGE, Embedder_MAX_TIRE_AGE + 1}
EmbedderLapInputs == {-1, 0, 1, 14, 15, 49, 50, MAX_LAP, MAX_LAP + 1}
EmbedderPositionInputs ==
    {PyInt(-1), PyInt(0), PyInt(1), PyInt(MAX_POSITION), PyInt(MAX_POSITION + 1),
     PyDict([current |-> 3, start |-> 2]), PyDict([start |-> 2])}
EmbedderGapInputs ==
    { <<>>,
      [to_p1 |-> 5, to_p2 |-> MAX_GAP + 1, to_p4 |-> MAX_GAP],
      [to_p1 |-> 5, to_p5 |-> 30],
      [to_p3 |-> 30, to_p6 |-> 30],
      [to_p1 |-> -3, to_p4 |-> -2] }

\* scenarios that vary the numbers the features are computed from
NumberScenarios ==
    {l @@ t @@ p @@ g @@ w :
        l \in Optional("lap", EmbedderLapInputs),
        t \in Optional("tires",
                {<<>>} \cup {[age_laps |-> a, compound |-> c] :
                                a \in EmbedderAgeInputs,
                                c \in {"SOFT", "WET", "HYPERSOFT"}}),
        p \in Optional("position", EmbedderPositionInputs),
        g \in Optional("gaps", EmbedderGapInputs),
        w \in Optional("weather", {[condition |-> txt_Heavy_Rain]})}

\* scenarios that vary the texts the features are computed from
TextScenarios ==
    {[lap |-> 20] @@ t @@ w @@ r :
        t \in Optional("tires",
                {[age_laps |-> 12, condition |-> c] :
                    c \in {txt_good, txt_critical_wear, txt_unknown}}),
        w \in Optional("weather",
                {<<>>, [condition |-> txt_wet], [condition |-> txt_DRY],
                 [condition |-> txt_cloudy]}),
        r \in Optional("race_state", EmbedderRaceStateInputs)}

EmbedderScenarios == NumberScenarios \cup TextScenarios

InitEmbedder ==
    /\ scenario \in EmbedderScenarios
    /\ op = "none"
    /\ args = <<>>
    /\ result = <<>>
    /\ collection = <<>>
    /\ model = <<>>

\* embedder.extract_numerical_features(scenario)
ExtractNumericalFeatures ==
    /\ op = "none"
    /\ op' = "extract_numerical_features"
    /\ result' = Returned(extract_numerical_features(scenario), <<>>)
    /\ UNCHANGED <<scenario, args, collection, model>>

NextEmbedder == ExtractNumericalFeatures

SpecEmbedder == InitEmbedder /\ [][NextEmbedder]_vars

-----------------------------------------------------------------------------
(* Properties of the numerical features (SpecEmbedder)                     *)

Extracted == op = "extract_numerical_features"

\* feature i of the returned array, counted from 0 as the docstring does
Feature(i) == result.value[i + 1]

\* C19 as stated: extract_numerical_features returns exactly 11 values, each in
\* [0, 1], whatever the tire age, lap, position and gap values of the scenario.
C19_AsStated ==
    Extracted =>
        /\ Len(result.value) = 11
        /\ \A i \in 0..10 : 0 <= Feature(i) /\ Feature(i) <= Unit

\* C20: feature 9 is 1.0 exactly when race_state, lower-cased, is
\* "virtual_safety_car" or "vsc" or contains both "virtual" and "safety";
\* feature 8 is 1.0 only if feature 9 is 0.0 and race_state is "safety_car" or
\* "sc" or contains "safety" and "car"; both are 0.0 for "racing".
C20_SafetyCarFeatures ==
    Extracted =>
        LET race_state == Lower(Get(scenario, "race_state", <<>>)) IN
        /\ Feature(8) \in {0, Unit} /\ Feature(9) \in {0, Unit}
        /\ Feature(9) = Unit <=>
              \/ race_state = txt_virtual_safety_car
              \/ race_state = txt_vsc
              \/ Contains(kw_virtual, race_state) /\ Contains(kw_safety, race_state)
        /\ Feature(8) = Unit =>
              /\ Feature(9) = 0
              /\ \/ race_state = txt_safety_car
                 \/ race_state = txt_sc
                 \/ Contains(kw_safety, race_state) /\ Contains(kw_car, race_state)
        /\ race_state = txt_racing => (Feature(8) = 0 /\ Feature(9) = 0)

C20_Witness ==
    /\ Extracted
    /\ "race_state" \in DOMAIN scenario
    /\ scenario["race_state"] = txt_Virtual_Safety_Car
    /\ Feature(9) = Unit
    /\ Feature(8) = 0

-----------------------------------------------------------------------------
(* ScenarioEmbedder.embed and VectorDatabase (embeddings.py, vectordb.py)  *)
(*                                                                         *)
(* The sentence encoder is a function from texts to unit vectors, given by *)
(* the variable model; the collection is the list of stored entries.  A    *)
(* distance is the squared L2 distance the collection computes, in units   *)
(* of 1/Unit^2.                                                            *)

PyNone == [type |-> "NoneType"]

\* f"{position}" of an int or of a dict
position_text(s) ==
    LET position == Get(s, "position", PyInt(0)) IN
    IF position.type = "dict" THEN ToString(position.dict) ELSE ToString(position.int)

\* embeddings.py lines 64-99
scenario_to_text(s) ==
    LET tires == Get(s, "tires", <<>>)
        compound == Get(tires, "compound", "UNKNOWN")
        age == Get(tires, "age_laps", 0)
        condition == Get(tires, "condition", <<>>)
        lap == Get(s, "lap", 0)
        weather_condition == Get(Get(s, "weather", <<>>), "condition", txt_unknown)
        race_state == Get(s, "race_state", <<>>)
    IN  "Race situation at lap " \o ToString(lap) \o "."
        \o " Currently in position " \o position_text(s) \o "."
        \o " Running on " \o compound \o " compound tires that are "
        \o ToString(age) \o " laps old."
        \o " Tire condition: " \o Str(condition) \o "."
        \o " Track conditions: " \o Str(weather_condition) \o " weather."
        \o (IF "context" \in DOMAIN s /\ "description" \in DOMAIN s["context"]
            THEN " " \o s["context"]["description"] ELSE "")
        \o (IF race_state # <<>> THEN " Race state: " \o Str(race_state) ELSE "")

\* embeddings.py lines 222-231: text embedding followed by the 11 features
embed(encoder, s) == encoder[scenario_to_text(s)] \o extract_numerical_features(s)

\* the collection's "l2" space: the sum of the squared differences
RECURSIVE distance(_, _)
distance(a, b) ==
    IF a = <<>> THEN 0
    ELSE (Head(a) - Head(b)) * (Head(a) - Head(b)) + distance(Tail(a), Tail(b))

\* json.dumps(scenario): the document is a text, not a dict
dumps(s) == [json |-> s]

\* json.loads(document)
loads(document) == document.json

\* vectordb.py lines 69-75
metadata_of(s) ==
    [track |-> Get(Get(s, "race", <<>>), "track", "unknown"),
     lap |-> Get(s, "lap", 0),
     driver |-> Get(s, "driver", "unknown"),
     tire_compound |-> Get(Get(s, "tires", <<>>), "compound", "unknown"),
     tire_age |-> Get(Get(s, "tires", <<>>), "age_laps", 0)]

stored_ids(coll) == {coll[i].id : i \in DOMAIN coll}

\* collection.add of one record: an id that is already stored is left as it is
collection_add(coll, entry) ==
    IF entry.id \in stored_ids(coll) THEN coll ELSE Append(coll, entry)

\* vectordb.py lines 52-77
ingest_scenario(coll, encoder, s, scenario_id) ==
    collection_add(coll, [id |-> scenario_id,
                          embedding |-> embed(encoder, s),
                          document |-> dumps(s),
                          metadata |-> metadata_of(s)])

\* vectordb.py lines 95-104: the loop of ingest_from_file over the records
RECURSIVE ingest_records(_, _, _, _)
ingest_records(coll, encoder, scenarios, race) ==
    IF scenarios = <<>> THEN coll
    ELSE LET s == Head(scenarios)
             scenario_id == Get(s, "id", "")
         IN  IF scenario_id = ""
             THEN ingest_records(coll, encoder, Tail(scenarios), race)
             ELSE ingest_records(
                      ingest_scenario(coll, encoder, ("race" :> race) @@ s, scenario_id),
                      encoder, Tail(scenarios), race)

\* vectordb.py lines 79-106: the collection afterwards and the count returned
ingest_from_file(coll, encoder, data) ==
    LET scenarios == Get(data, "scenarios", <<>>) IN
    [collection |-> ingest_records(coll, encoder, scenarios, Get(data, "race", <<>>)),
     count |-> Len(scenarios)]

\* vectordb.py lines 108-133: the files of the directory in sorted order
RECURSIVE ingest_from_directory(_, _, _)
ingest_from_directory(coll, encoder, json_files) ==
    IF json_files = <<>> THEN [collection |-> coll, count |-> 0]
    ELSE LET first == ingest_from_file(coll, encoder, Head(json_files))
             rest == ingest_from_directory(first.collection, encoder, Tail(json_files))
         IN  [collection |-> rest.collection, count |-> first.count + rest.count]

\* filter_metadata=None
NoFilter == <<>>

\* the `where` clause of collection.query: every given key has the given value
matches(metadata, where) ==
    \A key \in DOMAIN where : key \in DOMAIN metadata /\ metadata[key] = where[key]

\* collection.query: the n_results nearest of the entries that match, nearest
\* first, fewer when fewer match; entries at the same distance come in any order
collection_query(coll, query_embedding, n_results, where) ==
    LET candidates == {i \in DOMAIN coll : matches(coll[i].metadata, where)}
        n == IF n_results < Cardinality(candidates)
             THEN n_results ELSE Cardinality(candidates)
        d == [i \in candidates |-> distance(query_embedding, coll[i].embedding)]
    IN  {r \in [1..n -> candidates] :
            /\ \A i, j \in 1..n : i < j => (r[i] # r[j] /\ d[r[i]] <= d[r[j]])
            /\ \A c \in candidates :
                  (\A i \in 1..n : r[i] # c) => (\A i \in 1..n : d[r[i]] <= d[c])}

\* 1.0 on the scale of the similarities: a similarity is kept in units of
\* 1/(2 * Unit^2), so that 1 - (distance / 2) is a whole number
One == 2 * Unit * Unit

\* the conversion with the whole halved: 0.5 at distance 0
similarity_halved(distance_value) == (One - distance_value) \div 2

\* the conversion with the sign of the distance turned
similarity_inverted(distance_value) == One + distance_value

\* vectordb.py line 165: similarity = 1 - (distance / 2)
similarity(distance_value) == One - distance_value

\* vectordb.py lines 135-176: the lists search may return
search(coll, encoder, query_scenario, k, filter_metadata) ==
    LET query_embedding == embed(encoder, query_scenario) IN
    {[i \in 1..Len(r) |->
        [id |-> coll[r[i]].id,
         similarity |-> similarity(distance(query_embedding, coll[r[i]].embedding)),
         scenario |-> loads(coll[r[i]].document),
         metadata |-> coll[r[i]].metadata]] :
        r \in collection_query(coll, query_embedding, k, filter_metadata)}

\* vectordb.py lines 178-191
get_by_id(coll, scenario_id) ==
    IF scenario_id \notin stored_ids(coll) THEN PyNone
    ELSE PyDict(loads(coll[CHOOSE i \in DOMAIN coll : coll[i].id = scenario_id].document))

\* clear() that deletes nothing
clear_nothing(coll) == coll

\* vectordb.py lines 193-200: delete_collection and create_collection
clear(coll) == <<>>

text_dim == 2
numerical_dim == 11

\* vectordb.py lines 202-221; tracks is the sorted list of the distinct tracks,
\* kept as their set
stats(coll) ==
    [total_scenarios |-> Len(coll),
     tracks |-> {coll[i].metadata.track : i \in DOMAIN coll},
     embedding_dim |-> text_dim + numerical_dim]

-----------------------------------------------------------------------------
(* Calls on the vector database (SpecIndex)                                *)

s_ver ==
    [lap |-> 1, driver |-> "VER", position |-> PyInt(1),
     tires |-> [compound |-> "SOFT", age_laps |-> 0],
     weather |-> [condition |-> txt_dry], race_state |-> txt_racing]

\* s_ver with another driver: the same text and the same features
s_ham == [s_ver EXCEPT !.driver = "HAM"]

\* one lap after s_ver
s_near == [s_ver EXCEPT !.lap = 2]

\* the other end of every feature
s_far ==
    [lap |-> MAX_LAP, driver |-> "NOR", position |-> PyInt(MAX_POSITION),
     tires |-> [compound |-> "WET", age_laps |-> Embedder_MAX_TIRE_AGE,
                condition |-> txt_critical_wear],
     weather |-> [condition |-> txt_wet], race_state |-> txt_safety_car,
     gaps |-> [to_p2 |-> MAX_GAP, to_p4 |-> MAX_GAP],
     race |-> [track |-> "Silverstone"]]

IndexScenarios == {s_ver, s_ham, s_near, s_far}

IdInputs == {"a", "b"}

\* a dataset file with one record that has an id and one that has none
file_monaco ==
    [race |-> [track |-> "Monaco"],
     scenarios |-> <<("id" :> "c") @@ s_near, s_far>>]

\* a dataset file whose record uses an id that ingest_scenario is given too
file_silverstone ==
    [race |-> [track |-> "Silverstone"],
     scenarios |-> <<("id" :> "a") @@ s_ham>>]

FileInputs == {file_monaco, file_silverstone}

DirectoryInputs == {<<>>, <<file_monaco>>, <<file_monaco, file_silverstone>>}

KInputs == {1, 2}

FilterInputs == {NoFilter, [track |-> "Monaco"], [track |-> "Silverstone"]}

\* unit vectors the encoder may give a text
TextVectors == {<<Unit, 0>>, <<(3 * Unit) \div 5, (4 * Unit) \div 5>>}

\* the sentence encoders: each text has one vector; the texts of s_ver and
\* s_far have different ones, that of s_near has either
Encoders ==
    {encoder \in [{scenario_to_text(s) : s \in IndexScenarios} -> TextVectors] :
        /\ encoder[scenario_to_text(s_ver)] = <<Unit, 0>>
        /\ encoder[scenario_to_text(s_far)] # <<Unit, 0>>}

InitIndex ==
    /\ scenario = <<>>
    /\ op = "none"
    /\ args = <<>>
    /\ result = <<>>
    /\ collection = <<>>
    /\ model \in Encoders

\* db.ingest_scenario(scenario, scenario_id)
IngestScenario ==
    \E s \in IndexScenarios \ {s_near}, scenario_id \in IdInputs :
        /\ op' = "ingest_scenario"
        /\ args' = <<s, scenario_id>>
        /\ collection' = ingest_scenario(collection, model, s, scenario_id)
        /\ result' = Returned(PyNone, <<>>)
        /\ UNCHANGED <<scenario, model>>

\* db.ingest_from_file(filepath)
IngestFromFile ==
    \E data \in FileInputs :
        /\ op' = "ingest_from_file"
        /\ args' = <<data>>
        /\ collection' = ingest_from_file(collection, model, data).collection
        /\ result' = Returned(ingest_from_file(collection, model, data).count, <<>>)
        /\ UNCHANGED <<scenario, model>>

\* db.ingest_from_directory(directory)
IngestFromDirectory ==
    \E json_files \in DirectoryInputs :
        /\ op' = "ingest_from_directory"
        /\ args' = <<json_files>>
        /\ collection' = ingest_from_directory(collection, model, json_files).collection
        /\ result' = Returned(ingest_from_directory(collection, model, json_files).count, <<>>)
        /\ UNCHANGED <<scenario, model>>

\* a search that also stores its query in the collection
Search_storing_query ==
    \E query_scenario \in {s_ver, s_far}, k \in KInputs,
       filter_metadata \in FilterInputs :
        /\ op' = "search"
        /\ args' = <<query_scenario, k, filter_metadata>>
        /\ \E found \in search(collection, model, query_scenario, k, filter_metadata) :
               result' = Returned(found, <<>>)
        /\ collection' = ingest_scenario(collection, model, query_scenario, "b")
        /\ UNCHANGED <<scenario, model>>

\* db.search(query_scenario, k, filter_metadata)
Search ==
    \E query_scenario \in {s_ver, s_far}, k \in KInputs,
       filter_metadata \in FilterInputs :
        /\ op' = "search"
        /\ args' = <<query_scenario, k, filter_metadata>>
        /\ \E found \in search(collection, model, query_scenario, k, filter_metadata) :
               result' = Returned(found, <<>>)
        /\ UNCHANGED <<scenario, collection, model>>

\* db.get_by_id(scenario_id)
GetById ==
    \E scenario_id \in IdInputs \cup {"c"} :
        /\ op' = "get_by_id"
        /\ args' = <<scenario_id>>
        /\ result' = Returned(get_by_id(collection, scenario_id), <<>>)
        /\ UNCHANGED <<scenario, collection, model>>

\* db.clear()
Clear ==
    /\ op' = "clear"
    /\ args' = <<>>
    /\ collection' = clear(collection)
    /\ result' = Returned(PyNone, <<>>)
    /\ UNCHANGED <<scenario, model>>

\* db.stats()
Stats ==
    /\ op' = "stats"
    /\ args' = <<>>
    /\ result' = Returned(stats(collection), <<>>)
    /\ UNCHANGED <<scenario, collection, model>>

NextIndex ==
    \/ IngestScenario
    \/ IngestFromFile
    \/ IngestFromDirectory
    \/ Search
    \/ GetById
    \/ Clear
    \/ Stats

SpecIndex == InitIndex /\ [][NextIndex]_vars

-----------------------------------------------------------------------------
(* Properties of the vector database (SpecIndex)                           *)

\* the entry stored under an id
Stored(scenario_id) ==
    collection[CHOOSE i \in DOMAIN collection : collection[i].id = scenario_id]

\* the list a search returned
Found == result.value

\* the step is search(s, k) without a filter, right after ingest_scenario(s, id)
SearchAfterIngest ==
    /\ op = "ingest_scenario"
    /\ op' = "search"
    /\ args'[1] = args[1]
    /\ args'[3] = NoFilter

\* the entry of the ingested id comes first, with similarity >= 0.95
IngestedComesFirst ==
    /\ Len(result'.value) >= 1
    /\ result'.value[1].id = args[2]
    /\ result'.value[1].similarity >= One - One \div 20

\* C12 as stated: in any index state, after ingest_scenario(s, id) completes,
\* search(s, k) with k >= 1 and no filter returns the entry with that id as the
\* first result, with similarity >= 0.95.
C12_AsStated == [][SearchAfterIngest => IngestedComesFirst]_vars

\* C12 amended: after ingest_scenario(s, id), search(s, k) with k >= 1 and no
\* filter returns the entry with that id first, with similarity >= 0.95, when
\* the entry stored under id is s (an id already stored keeps its older
\* record) and no other stored entry has the same embedding as s.
C12_RoundTrip ==
    [][(/\ SearchAfterIngest
        /\ Stored(args[2]).document = dumps(args[1])
        /\ \A i \in DOMAIN collection :
              collection[i].id # args[2]
                  => collection[i].embedding # Stored(args[2]).embedding)
        => IngestedComesFirst]_vars

C12_Witness ==
    /\ op = "search"
    /\ args[1] = s_far /\ args[2] = 2 /\ args[3] = NoFilter
    /\ Len(collection) = 3
    /\ "b" \in stored_ids(collection)
    /\ Stored("b").document = dumps(s_far)
    /\ Len(Found) = 2
    /\ Found[1].id = "b"
    /\ Found[1].similarity = One
    /\ Found[2].similarity < One

\* the stored entries that match the filter of the search
Matching == {i \in DOMAIN collection : matches(collection[i].metadata, args[3])}

\* the distance of a stored entry from the query of the search
QueryDistance(i) == distance(embed(model, args[1]), collection[i].embedding)

\* C13: search(query, k, filter) returns a list ordered by non-increasing
\* similarity, of length min(k, number of stored entries matching the filter);
\* every result is a stored entry that matches, with its id, scenario and
\* metadata as ingested; no entry left out is nearer to the query than a
\* returned one; on an empty index the result is the empty list.
C13_SearchResults ==
    op = "search" =>
        /\ result.kind = "return"
        /\ Len(Found) = IF args[2] < Cardinality(Matching)
                        THEN args[2] ELSE Cardinality(Matching)
        /\ \A i, j \in DOMAIN Found :
              i < j => (Found[i].similarity >= Found[j].similarity
                        /\ Found[i].id # Found[j].id)
        /\ \A i \in DOMAIN Found :
              \E e \in Matching :
                  /\ collection[e].id = Found[i].id
                  /\ collection[e].document = dumps(Found[i].scenario)
                  /\ collection[e].metadata = Found[i].metadata
        /\ \A e \in Matching :
              (\A i \in DOMAIN Found : Found[i].id # collection[e].id)
                  => \A i \in DOMAIN Found :
                        QueryDistance(e) >= One - Found[i].similarity
        /\ collection = <<>> => Found = <<>>

C13_Witness ==
    /\ op = "search"
    /\ args[2] = 2 /\ args[3] = NoFilter
    /\ Len(collection) = 3
    /\ Len(Found) = 2
    /\ Found[1].similarity > Found[2].similarity
    /\ \E e \in Matching :
          /\ \A i \in DOMAIN Found : Found[i].id # collection[e].id
          /\ QueryDistance(e) > One - Found[2].similarity

\* C14 as stated: every similarity returned by search lies in [0, 1], for every
\* query and every set of stored entries.
C14_AsStated ==
    op = "search" =>
        \A i \in DOMAIN Found : 0 <= Found[i].similarity /\ Found[i].similarity <= One

\* C15 as stated: starting from an empty index, the count that ingest_from_file
\* and ingest_from_directory return equals the number of entries stored.
C15_AsStated ==
    [][(collection = <<>> /\ op' \in {"ingest_from_file", "ingest_from_directory"})
          => result'.value = Len(collection')]_vars

\* after clear() and until the next ingest the index answers as empty
AnswersAsEmpty ==
    /\ op = "clear" => collection = <<>>
    /\ (collection = <<>> /\ op = "get_by_id") => result.value = PyNone
    /\ (collection = <<>> /\ op = "search") => Found = <<>>
    /\ (collection = <<>> /\ op = "stats") =>
          (result.value.total_scenarios = 0 /\ result.value.tracks = {})

\* an entry ingested right after clear() is the only one stored and is what
\* get_by_id returns
IngestAfterClear ==
    (op = "clear" /\ op' = "ingest_scenario")
        => /\ Len(collection') = 1
           /\ collection'[1].id = args'[2]
           /\ loads(collection'[1].document) = args'[1]

\* C16: after clear() the index count is 0, get_by_id finds no id, search
\* returns the empty list and stats reports total 0 with no tracks, until the
\* next ingest; entries ingested after the clear are stored and retrievable.
C16_ClearEmpties == []AnswersAsEmpty /\ [][IngestAfterClear]_vars

C16_Witness ==
    /\ op = "clear"
    /\ result.kind = "return"
    /\ collection = <<>>
    /\ get_by_id(collection, "a") = PyNone
    /\ stats(collection).total_scenarios = 0

-----------------------------------------------------------------------------
(* F1StrategyRAG (engine_v2.py; engine.py has the same two methods)        *)
(*                                                                         *)
(* A response text is a sequence of tokens, each a stretch of the text:    *)
(*   space       white space                                               *)
(*   prose       words without braces or back quotes                       *)
(*   fence_json  ```json                                                   *)
(*   fence       ```                                                       *)
(*   open        a single {                                                *)
(*   close       a single }                                                *)
(*   malformed   {...} that is not JSON                                    *)
(*   object      {...} that is a JSON object, with the dict it denotes     *)

Token(kind) == [kind |-> kind]

ObjectToken(fields) == [kind |-> "object", fields |-> fields]

starts_with_brace(token) == token.kind \in {"object", "malformed", "open"}

ends_with_brace(token) == token.kind \in {"object", "malformed", "close"}

starts_with_fence(token) == token.kind \in {"fence", "fence_json"}

\* str.strip()
RECURSIVE strip(_)
strip(tokens) ==
    IF tokens = <<>> THEN <<>>
    ELSE IF Head(tokens).kind = "space" THEN strip(Tail(tokens))
    ELSE IF tokens[Len(tokens)].kind = "space"
    THEN strip(SubSeq(tokens, 1, Len(tokens) - 1))
    ELSE tokens

\* the first position after p that is not white space, 0 when there is none
next_non_space(tokens, p) ==
    LET rest == {i \in (p + 1)..Len(tokens) : tokens[i].kind # "space"} IN
    IF rest = {} THEN 0 ELSE CHOOSE i \in rest : \A j \in rest : i <= j

\* where the group of ```json\s*(\{.*?\})\s*``` can end when the fence is at p
fenced_group_ends(tokens, p) ==
    LET q == next_non_space(tokens, p) IN
    IF q = 0 \/ ~starts_with_brace(tokens[q]) THEN {}
    ELSE {e \in q..Len(tokens) :
            /\ ends_with_brace(tokens[e])
            /\ next_non_space(tokens, e) # 0
            /\ starts_with_fence(tokens[next_non_space(tokens, e)])}

\* line 335: re.search(r"```json\s*(\{.*?\})\s*```", text, re.DOTALL), group 1:
\* the leftmost fence that matches, the shortest group after it
fenced_json(tokens) ==
    LET starts == {p \in DOMAIN tokens :
                      tokens[p].kind = "fence_json" /\ fenced_group_ends(tokens, p) # {}}
    IN  IF starts = {} THEN [found |-> FALSE]
        ELSE LET p == CHOOSE i \in starts : \A j \in starts : i <= j
                 ends == fenced_group_ends(tokens, p)
                 e == CHOOSE i \in ends : \A j \in ends : i <= j
             IN  [found |-> TRUE, text |-> SubSeq(tokens, next_non_space(tokens, p), e)]

\* line 340: re.search(r"\{.*\}", text, re.DOTALL): first { to last }
raw_json(tokens) ==
    LET opens == {i \in DOMAIN tokens : starts_with_brace(tokens[i])}
        first == CHOOSE i \in opens : \A j \in opens : i <= j
        closes == {i \in DOMAIN tokens : ends_with_brace(tokens[i]) /\ i >= first}
        last == CHOOSE i \in closes : \A j \in closes : i >= j
    IN  IF opens = {} \/ closes = {} THEN [found |-> FALSE]
        ELSE [found |-> TRUE, text |-> SubSeq(tokens, first, last)]

\* json.loads: one JSON object, or { } with nothing but white space inside
json_loads(text) ==
    IF Len(text) = 1 /\ text[1].kind = "object"
    THEN [ok |-> TRUE, parsed |-> text[1].fields]
    ELSE IF /\ Len(text) >= 2
            /\ text[1].kind = "open" /\ text[Len(text)].kind = "close"
            /\ \A i \in 2..(Len(text) - 1) : text[i].kind = "space"
    THEN [ok |-> TRUE, parsed |-> <<>>]
    ELSE [ok |-> FALSE]

required_fields == <<"decision", "confidence", "reasoning", "risk_level">>

\* a confidence is a JSON number, kept in hundredths, or a JSON string
PyFloat(hundredths) == [type |-> "float", hundredths |-> hundredths]
PyStr == [type |-> "str"]

\* the range test with the upper bound left out
confidence_in_range_no_upper(confidence) == 0 <= confidence.hundredths

\* line 363: 0.0 <= parsed["confidence"] <= 1.0
confidence_in_range(confidence) ==
    0 <= confidence.hundredths /\ confidence.hundredths <= 100

\* lines 352-370
validate_parsed(parsed) ==
    IF \E i \in DOMAIN required_fields : required_fields[i] \notin DOMAIN parsed
    THEN Raised("ValueError",
                "Missing required field: " \o
                    required_fields[CHOOSE i \in DOMAIN required_fields :
                        /\ required_fields[i] \notin DOMAIN parsed
                        /\ \A j \in 1..(i - 1) : required_fields[j] \in DOMAIN parsed],
                <<>>)
    ELSE IF ~InList(parsed["decision"], <<"BOX", "STAY_OUT">>)
    THEN Raised("ValueError", "Invalid decision: " \o parsed["decision"], <<>>)
    ELSE IF parsed["confidence"].type = "str"
    THEN Raised("TypeError", "'<=' not supported between instances of 'float' and 'str'", <<>>)
    ELSE IF ~confidence_in_range(parsed["confidence"])
    THEN Raised("ValueError", "Invalid confidence", <<>>)
    ELSE IF ~InList(parsed["risk_level"], <<"LOW", "MEDIUM", "HIGH">>)
    THEN Raised("ValueError", "Invalid risk level: " \o parsed["risk_level"], <<>>)
    ELSE Returned(parsed, <<>>)

\* lines 318-370
parse_llm_response(response_text) ==
    LET text == strip(response_text)
        json_match == IF fenced_json(text).found THEN fenced_json(text) ELSE raw_json(text)
    IN  IF ~json_match.found
        THEN Raised("ValueError", "Could not extract JSON from response", <<>>)
        ELSE IF ~json_loads(json_match.text).ok
        THEN Raised("ValueError", "Invalid JSON in response", <<>>)
        ELSE validate_parsed(json_loads(json_match.text).parsed)

\* generate_strategy that asks the model before it looks at what was retrieved
rag_generate_strategy_late_check(retrieved, llm) ==
    LET calls == <<"search", "build_prompt", "query_ollama">> IN
    IF llm.kind = "error" THEN Raised(llm.exc, "", calls)
    ELSE IF retrieved = <<>>
    THEN Raised("ValueError", "No similar scenarios found in database", calls)
    ELSE LET parsed == parse_llm_response(llm.response) IN
         IF parsed.kind = "raise"
         THEN Raised(parsed.exc, parsed.detail, Append(calls, "parse_llm_response"))
         ELSE Returned(
                  ("retrieved_scenarios" :> retrieved) @@ ("num_retrieved" :> Len(retrieved))
                      @@ parsed.value,
                  Append(calls, "parse_llm_response"))

\* lines 372-403, for the list search returned and for what the request to the
\* model gives: a response text, or the error requests raised
rag_generate_strategy(retrieved, llm) ==
    IF retrieved = <<>>
    THEN Raised("ValueError", "No similar scenarios found in database", <<"search">>)
    ELSE LET calls == <<"search", "build_prompt", "query_ollama">> IN
         IF llm.kind = "error" THEN Raised(llm.exc, "", calls)
         ELSE LET parsed == parse_llm_response(llm.response) IN
              IF parsed.kind = "raise"
              THEN Raised(parsed.exc, parsed.detail, Append(calls, "parse_llm_response"))
              ELSE Returned(
                       ("retrieved_scenarios" :> retrieved)
                           @@ ("num_retrieved" :> Len(retrieved))
                           @@ parsed.value,
                       Append(calls, "parse_llm_response"))

-----------------------------------------------------------------------------
(* Calls on the RAG engine (SpecEngine)                                    *)

MaxTokens == 3

valid_fields ==
    [decision |-> "BOX", confidence |-> PyFloat(85),
     reasoning |-> "Applying RULE 5: tires are worn.", risk_level |-> "LOW"]

\* valid_fields without one key
Without(fields, key) == [k \in DOMAIN fields \ {key} |-> fields[k]]

ObjectInputs ==
    {valid_fields,
     [valid_fields EXCEPT !.decision = "STAY_OUT", !.confidence = PyFloat(100),
                          !.risk_level = "HIGH"],
     [valid_fields EXCEPT !.confidence = PyFloat(0), !.risk_level = "MEDIUM"],
     ("compound" :> "SOFT") @@ ("num_retrieved" :> 9) @@ valid_fields,
     [valid_fields EXCEPT !.decision = "PIT"],
     [valid_fields EXCEPT !.confidence = PyFloat(101)],
     [valid_fields EXCEPT !.confidence = PyFloat(-1)],
     [valid_fields EXCEPT !.confidence = PyStr],
     [valid_fields EXCEPT !.risk_level = "EXTREME"]}
    \cup {Without(valid_fields, required_fields[i]) : i \in DOMAIN required_fields}

TokenInputs ==
    {Token(kind) : kind \in {"space", "prose", "fence_json", "fence", "open", "close",
                             "malformed"}}
    \cup {ObjectToken(fields) : fields \in ObjectInputs}

\* the response texts of up to MaxTokens tokens
ResponseInputs == UNION {[1..n -> TokenInputs] : n \in 0..MaxTokens}

\* what the request to the model gives generate_strategy: a short response, a
\* fenced one, or an error of the request
LLMInputs ==
    {[kind |-> "response", response |-> <<token>>] : token \in TokenInputs}
    \cup {[kind |-> "response",
           response |-> <<Token("fence_json"), ObjectToken(valid_fields), Token("fence")>>],
          [kind |-> "error", exc |-> "ConnectionError"],
          [kind |-> "error", exc |-> "HTTPError"]}

\* the encoder that gives s_far the second vector and every other text the first
encoder_0 ==
    CHOOSE encoder \in Encoders : encoder[scenario_to_text(s_near)] = <<Unit, 0>>

\* the indexes the engine is built on: empty, one entry, three entries
EngineCollections ==
    {<<>>,
     ingest_scenario(<<>>, encoder_0, s_far, "b"),
     ingest_scenario(
         ingest_from_directory(<<>>, encoder_0, <<file_monaco, file_silverstone>>).collection,
         encoder_0, s_far, "b")}

InitEngine ==
    /\ scenario = <<>>
    /\ op = "none"
    /\ args = <<>>
    /\ result = <<>>
    /\ collection \in EngineCollections
    /\ model = encoder_0

\* rag.parse_llm_response(response_text)
ParseLLMResponse ==
    /\ op = "none"
    /\ \E response_text \in ResponseInputs :
           /\ args' = <<response_text>>
           /\ result' = parse_llm_response(response_text)
    /\ op' = "parse_llm_response"
    /\ UNCHANGED <<scenario, collection, model>>

\* rag.generate_strategy(scenario, k); args keeps what search and the request
\* to the model gave
RagGenerateStrategy ==
    /\ op = "none"
    /\ \E s \in {s_ver, s_far}, k \in {1, 5} :
         \E retrieved \in search(collection, model, s, k, NoFilter), llm \in LLMInputs :
           /\ scenario' = s
           /\ args' = <<k, retrieved, llm>>
           /\ result' = rag_generate_strategy(retrieved, llm)
    /\ op' = "rag.generate_strategy"
    /\ UNCHANGED <<collection, model>>

NextEngine == ParseLLMResponse \/ RagGenerateStrategy

SpecEngine == InitEngine /\ [][NextEngine]_vars

-----------------------------------------------------------------------------
(* Properties of the RAG engine (SpecEngine)                               *)

\* a JSON object with the four fields, each within its set or range
WellFormed(fields) ==
    /\ {"decision", "confidence", "reasoning", "risk_level"} \subseteq DOMAIN fields
    /\ fields["decision"] \in {"BOX", "STAY_OUT"}
    /\ fields["confidence"].type = "float"
    /\ 0 <= fields["confidence"].hundredths /\ fields["confidence"].hundredths <= 100
    /\ fields["risk_level"] \in {"LOW", "MEDIUM", "HIGH"}

\* the JSON objects a response text contains
ObjectsIn(response_text) ==
    {response_text[i].fields :
        i \in {j \in DOMAIN response_text : response_text[j].kind = "object"}}

\* the record has the keys and values of the JSON object, apart from the two
\* keys generate_strategy sets itself
SameValues(record, fields) ==
    LET own == {"retrieved_scenarios", "num_retrieved"} IN
    /\ DOMAIN record \ own = DOMAIN fields \ own
    /\ \A key \in DOMAIN fields \ own : record[key] = fields[key]

\* C17: parse_llm_response returns a record only if the response contains a
\* JSON object with decision, confidence, reasoning and risk_level, decision in
\* {BOX, STAY_OUT}, 0 <= confidence <= 1 and risk_level in {LOW, MEDIUM, HIGH},
\* and the record is that object; for every other response it raises, and
\* generate_strategy returns a record only with the values of such an object.
C17_NoSilentDefault ==
    /\ op = "parse_llm_response" =>
          /\ result.kind \in {"return", "raise"}
          /\ result.kind = "return" =>
                (result.value \in ObjectsIn(args[1]) /\ WellFormed(result.value))
    /\ op = "rag.generate_strategy" =>
          /\ result.kind \in {"return", "raise"}
          /\ result.kind = "return" =>
                /\ args[3].kind = "response"
                /\ \E fields \in ObjectsIn(args[3].response) :
                      WellFormed(fields) /\ SameValues(result.value, fields)

C17_Witness ==
    /\ op = "parse_llm_response"
    /\ args[1] = <<Token("prose"), ObjectToken(valid_fields), Token("prose")>>
    /\ result.kind = "return"
    /\ result.value = valid_fields

\* C18: when search returns no result, generate_strategy raises before the
\* prompt is built and before the model is asked; when it returns a record,
\* retrieved_scenarios is the non-empty list search returned and num_retrieved
\* is its length, at most k.
C18_FailFast ==
    op = "rag.generate_strategy" =>
        /\ args[2] = <<>> =>
              /\ result.kind = "raise"
              /\ result.calls = <<"search">>
        /\ result.kind = "return" =>
              /\ args[2] # <<>>
              /\ result.value["retrieved_scenarios"] = args[2]
              /\ result.value["num_retrieved"] = Len(args[2])
              /\ Len(args[2]) <= args[1]

C18_Witness ==
    /\ op = "rag.generate_strategy"
    /\ collection = <<>>
    /\ args[2] = <<>>
    /\ args[3].kind = "response"
    /\ result.kind = "raise"
    /\ result.exc = "ValueError"
    /\ result.calls = <<"search">>

-----------------------------------------------------------------------------
(* Further properties of the Rule Engine (Spec, SpecWindow)                *)

\* C21: for every scenario that passes validation and carries lap,
\* tires.compound, tires.age_laps and weather, generate_strategy returns one
\* record with decision BOX or STAY_OUT, confidence_score in [0, 1], risk_level
\* LOW, MEDIUM or HIGH and a rationale longer than 10 characters.
C21_WellFormedRecord ==
    (Called /\ Valid /\ HasRuleFields)
        => /\ result.kind = "return"
           /\ result.value.decision \in {"BOX", "STAY_OUT"}
           /\ 0 <= result.value.confidence_score
           /\ result.value.confidence_score <= 100
           /\ result.value.risk_level \in {"LOW", "MEDIUM", "HIGH"}
           /\ Len(result.value.rationale) > 10

C21_Witness ==
    /\ Called /\ Valid /\ HasRuleFields /\ Compatible
    /\ Lap = 40
    /\ TireAge = 9
    /\ "gaps" \notin DOMAIN scenario
    /\ Decided("STAY_OUT")
    /\ result.value.confidence_score = 70
    /\ result.value.risk_level = "MEDIUM"
    /\ Len(result.value.rationale) = 37

\* the condition text names a changing weather: one of the four keywords
WeatherChanging ==
    \/ Contains(kw_changing, Lower(Condition))
    \/ Contains(kw_mixed, Lower(Condition))
    \/ Contains(kw_drizzle, Lower(Condition))
    \/ Contains(kw_damp, Lower(Condition))

\* no rule before the tire age rules fires: compatible weather, lap < 58, no
\* safety car exploitation, no free pit stop window
NoEarlierRule == ReachesFreeWindowRule /\ ~FreeWindow

\* C24: a valid scenario with 10 <= tire age <= 25 on which no earlier rule
\* fires gets BOX with risk MEDIUM if its weather condition contains
\* "changing", "mixed", "drizzle" or "damp", and otherwise STAY_OUT with risk
\* LOW and confidence_score below 0.80.
C24_MidStint ==
    (Called /\ NoEarlierRule /\ 10 <= TireAge /\ TireAge <= 25)
        => IF WeatherChanging
           THEN Decided("BOX") /\ result.value.risk_level = "MEDIUM"
           ELSE /\ Decided("STAY_OUT")
                /\ result.value.risk_level = "LOW"
                /\ result.value.confidence_score < 80

C24_Witness ==
    /\ Called /\ NoEarlierRule
    /\ TireAge = 10
    /\ Condition = txt_damp
    /\ RaceState = txt_safety_car
    /\ Decided("BOX")
    /\ result.value.risk_level = "MEDIUM"
    /\ result.value.confidence_score = 80

\* the gap to the nearest trailing rival: the first gap given of to_p4, to_p5,
\* to_p6 (0 when there is none)
TrailingGap ==
    IF "gaps" \in DOMAIN scenario
    THEN NearestGap(scenario["gaps"], <<"to_p4", "to_p5", "to_p6">>)
    ELSE 0

\* C25 as stated: a valid scenario with 26 <= tire age <= 29 on which no
\* earlier rule fires gets BOX if the gap to the nearest trailing rival (first
\* given of to_p4, to_p5, to_p6) is above 10 s, and STAY_OUT otherwise, also
\* when it carries no gaps.
C25_AsStated ==
    (Called /\ NoEarlierRule /\ ~WeatherChanging /\ 26 <= TireAge /\ TireAge <= 29)
        => IF TrailingGap > 10 THEN Decided("BOX") ELSE Decided("STAY_OUT")

-----------------------------------------------------------------------------
(* Further properties of the numerical features (SpecEmbedder)             *)

\* min(g / 60, 1) in units of 1/Unit
GapFeature(g) == IF (g * Unit) \div 60 < Unit THEN (g * Unit) \div 60 ELSE Unit

\* C26 as stated: feature 4 is min(g / 60, 1) for g the first given of to_p1,
\* to_p2, to_p3 in that order (to_p1 when both to_p1 and to_p2 are given),
\* feature 5 the same for the first given of to_p4, to_p5, to_p6 (non-zero for
\* a scenario that gives only to_p6), and both are 0 when no gap is given.
C26_AsStated ==
    Extracted =>
        LET gaps == Get(scenario, "gaps", <<>>) IN
        /\ Feature(4) = GapFeature(NearestGap(gaps, <<"to_p1", "to_p2", "to_p3">>))
        /\ Feature(5) = GapFeature(NearestGap(gaps, <<"to_p4", "to_p5", "to_p6">>))

-----------------------------------------------------------------------------
(* F1StrategyRAG: the prompt (engine_v2.py)                                *)

\* lines 92-100
track_lengths ==
    [Monaco |-> 78, Singapore |-> 62, Spa |-> 44, Silverstone |-> 52, Monza |-> 53]
        @@ ("Marina Bay Street Circuit" :> 62) @@ ("Marina Bay" :> 62)

\* estimate_race_length(lap, track): track is a name or None
estimate_race_length(lap, track) ==
    IF Truthy(track) /\ track \in DOMAIN track_lengths
    THEN track_lengths[track]
    ELSE IF lap >= 60 THEN 62
    ELSE IF lap >= 50 THEN 60
    ELSE 55

get_race_phase(lap, race_length) ==
    LET laps_remaining == race_length - lap IN
    IF lap <= 1 THEN "START"
    ELSE IF laps_remaining <= 3 THEN "FINAL_LAPS"
    ELSE IF laps_remaining <= 10 THEN "LATE_RACE"
    ELSE IF lap <= 15 THEN "EARLY_RACE"
    ELSE "MID_RACE"

\* lines 177-178: the decision of one retrieved entry
ret_decision(ret) ==
    Get(Get(ret["scenario"], "golden_truth", <<>>), "decision", "UNKNOWN")

\* list.count(value)
count(list, value) == Cardinality({i \in 1..Len(list) : list[i] = value})

\* sum(r["similarity"] for r in retrieved_scenarios), in hundredths
RECURSIVE similarity_sum(_)
similarity_sum(retrieved_scenarios) ==
    IF retrieved_scenarios = <<>> THEN 0
    ELSE Head(retrieved_scenarios).similarity + similarity_sum(Tail(retrieved_scenarios))

\* `{x:.2f}` of total / n for hundredths: the nearest hundredth
TwoDecimals(total, n) == (2 * total + n) \div (2 * n)

\* line 228: the Pattern line of the prompt
pattern(stay_count, box_count, n) ==
    IF n >= 4
    THEN "STRONG consensus for "
         \o (IF stay_count >= 4 THEN "STAY_OUT"
             ELSE IF box_count >= 4 THEN "BOX"
             ELSE "MIXED")
    ELSE "Insufficient pattern"

\* lines 261-268, STEP 4 with its values filled in: the check "Is {stay_count}
\* >= 4 OR {box_count} >= 4?" and the outputs its YES branch lists
step_4(stay_count, box_count) ==
    [follow_consensus |-> stay_count >= 4 \/ box_count >= 4,
     outputs |-> {label \in {"STAY_OUT", "BOX"} :
                     \/ label = "STAY_OUT" /\ stay_count >= 4
                     \/ label = "BOX" /\ box_count >= 4},
     agreeing |-> IF stay_count # 0 THEN stay_count ELSE box_count]

\* build_prompt(scenario, retrieved_scenarios): the values the f-string of
\* lines 208-289 interpolates for the race phase and for the analysis of the
\* retrieved scenarios
build_prompt(s, retrieved_scenarios) ==
    LET lap == Get(s, "lap", 0)
        track == Get(Get(s, "race", <<>>), "track", None)
        race_length == estimate_race_length(lap, track)
        phase == get_race_phase(lap, race_length)
        laps_remaining == race_length - lap
        retrieved_decisions ==
            [i \in 1..Len(retrieved_scenarios) |-> ret_decision(retrieved_scenarios[i])]
        box_count == count(retrieved_decisions, "BOX")
        stay_count == count(retrieved_decisions, "STAY_OUT")
        context_sections ==
            [i \in 1..(IF Len(retrieved_scenarios) < 5 THEN Len(retrieved_scenarios) ELSE 5)
                |-> [number |-> i, decision |-> retrieved_decisions[i],
                     similarity |-> retrieved_scenarios[i].similarity]]
    IN  IF retrieved_scenarios = <<>>
        THEN Raised("ZeroDivisionError", "division by zero", <<>>)
        ELSE Returned(
                 [lap |-> lap,
                  race_length |-> race_length,
                  race_phase |-> phase,
                  laps_remaining |-> laps_remaining,
                  context |-> context_sections,
                  total |-> Len(retrieved_scenarios),
                  avg_similarity |-> TwoDecimals(similarity_sum(retrieved_scenarios),
                                                 Len(retrieved_scenarios)),
                  stay_count |-> stay_count,
                  box_count |-> box_count,
                  pattern |-> pattern(stay_count, box_count, Len(retrieved_scenarios)),
                  step_4 |-> step_4(stay_count, box_count)],
                 <<"estimate_race_length", "get_race_phase">>)

-----------------------------------------------------------------------------
(* Calls of build_prompt (SpecPrompt)                                      *)

MaxRetrieved == 6

\* every lap the validator accepts, and one below and one above
PromptLapInputs == 0..(MAX_RACE_LAPS + 1)

\* a track of the table, a longer one, a track the table lacks, no track
RaceInputs == {[track |-> "Spa"], [track |-> "Monaco"], [track |-> "Imola"],
               [year |-> 2023]}

PromptScenarios ==
    {l @@ r : l \in Optional("lap", PromptLapInputs), r \in Optional("race", RaceInputs)}

\* search results: a scenario whose golden truth says BOX, one that says
\* STAY_OUT, one without a golden truth
RetrievedEntryInputs ==
    {[id |-> "box", similarity |-> 90,
      scenario |-> [lap |-> 30, golden_truth |-> [decision |-> "BOX"]]],
     [id |-> "stay", similarity |-> 85,
      scenario |-> [lap |-> 31, golden_truth |-> [decision |-> "STAY_OUT"]]],
     [id |-> "plain", similarity |-> 70, scenario |-> [lap |-> 32]]}

RetrievedInputs ==
    UNION {[1..n -> RetrievedEntryInputs] : n \in 0..MaxRetrieved}

InitPrompt ==
    /\ scenario \in PromptScenarios
    /\ op = "none"
    /\ args = <<>>
    /\ result = <<>>
    /\ collection = <<>>
    /\ model = <<>>

BuildPrompt ==
    /\ op = "none"
    /\ \E retrieved_scenarios \in RetrievedInputs :
         /\ args' = <<retrieved_scenarios>>
         /\ result' = build_prompt(scenario, retrieved_scenarios)
    /\ op' = "build_prompt"
    /\ UNCHANGED <<scenario, collection, model>>

NextPrompt == BuildPrompt

SpecPrompt == InitPrompt /\ [][NextPrompt]_vars

-----------------------------------------------------------------------------
(* Properties of the prompt (SpecPrompt)                                   *)

Built == op = "build_prompt" /\ result.kind = "return"

\* C27 as stated: the race length is the table's value for a track of the
\* table and otherwise 62 from lap 60, 60 from lap 50, else 55; the phase is
\* START if lap <= 1, else FINAL_LAPS if laps_remaining <= 3, else LATE_RACE if
\* laps_remaining <= 10, else EARLY_RACE if lap <= 15, else MID_RACE; every lap
\* in 1..80 gets exactly one phase, and laps_remaining is never negative for a
\* valid lap.
C27_AsStated ==
    (Built /\ "lap" \in DOMAIN scenario /\ scenario["lap"] \in 1..MAX_RACE_LAPS)
        => LET lap == scenario["lap"]
               known == /\ "race" \in DOMAIN scenario
                        /\ "track" \in DOMAIN scenario["race"]
                        /\ scenario["race"]["track"] \in DOMAIN track_lengths
               laps_remaining == result.value.laps_remaining
           IN  /\ result.value.race_length =
                     IF known THEN track_lengths[scenario["race"]["track"]]
                     ELSE IF lap >= 60 THEN 62 ELSE IF lap >= 50 THEN 60 ELSE 55
               /\ laps_remaining = result.value.race_length - lap
               /\ result.value.race_phase =
                     IF lap <= 1 THEN "START"
                     ELSE IF laps_remaining <= 3 THEN "FINAL_LAPS"
                     ELSE IF laps_remaining <= 10 THEN "LATE_RACE"
                     ELSE IF lap <= 15 THEN "EARLY_RACE"
                     ELSE "MID_RACE"
               /\ laps_remaining >= 0

\* the retrieved scenarios of the call whose golden truth carries the label
Carrying(label) == {i \in 1..Len(args[1]) : ret_decision(args[1][i]) = label}

\* at least 80% of the k retrieved scenarios carry the label
Consensus(label) == 5 * Cardinality(Carrying(label)) >= 4 * Len(args[1])

\* the prompt reports a strong consensus for the label and tells to follow it
ReportsConsensus(label) ==
    /\ result.value.pattern = "STRONG consensus for " \o label
    /\ result.value.step_4.follow_consensus
    /\ label \in result.value.step_4.outputs

\* C28 as stated: for every list of k retrieved scenarios, box_count +
\* stay_count <= k, and the prompt reports a strong consensus for a label, and
\* tells to follow it, exactly when at least 80% of the k retrieved carry that
\* label; at most one label is reported, and otherwise no consensus.
C28_AsStated ==
    Built =>
        /\ result.value.box_count + result.value.stay_count <= Len(args[1])
        /\ \A label \in {"BOX", "STAY_OUT"} : ReportsConsensus(label) <=> Consensus(label)
        /\ Cardinality(result.value.step_4.outputs) <= 1
        /\ (~Consensus("BOX") /\ ~Consensus("STAY_OUT"))
              => ~result.value.step_4.follow_consensus

-----------------------------------------------------------------------------
(* Independence of race_state (SpecWindow)                                 *)

\* the scenario with another race_state, or with none
WithRaceState(s, r) == r @@ [key \in DOMAIN s \ {"race_state"} |-> s[key]]

\* the record of a call, without the trace of the calls made
Record(outcome) ==
    IF outcome.kind = "return" THEN outcome.value ELSE [exc |-> outcome.exc]

\* C30: two valid scenarios that differ only in race_state and have a tire
\* age below 15 get identical records from generate_strategy: decision,
\* compound, rationale, confidence_score and risk_level.
C30_RaceStateIgnoredBelow15 ==
    (Called /\ Valid /\ HasRuleFields /\ TireAge < 15)
        => \A r \in Optional("race_state", RaceStateInputs) :
              /\ result.kind = "return"
              /\ Record(generate_strategy(WithRaceState(scenario, r))) = result.value

C30_Witness ==
    /\ Called /\ Valid /\ HasRuleFields /\ Compatible
    /\ TireAge = 14
    /\ Lap = 41
    /\ RaceState = txt_safety_car
    /\ Decided("STAY_OUT")
    /\ result.value.confidence_score = 75
    /\ Record(generate_strategy(WithRaceState(scenario, "race_state" :> txt_racing)))
           = result.value

-----------------------------------------------------------------------------
(* The engine on an index in use (SpecFrame)                               *)

\* what the request to the model gives: a valid answer, one that does not
\* parse, or an error of the request
FrameLLMInputs ==
    {[kind |-> "response", response |-> <<ObjectToken(valid_fields)>>],
     [kind |-> "response", response |-> <<Token("prose")>>],
     [kind |-> "error", exc |-> "ConnectionError"]}

\* rag.generate_strategy(scenario, k) on the index as the calls before left it
Decide ==
    /\ \E k \in {1, 5} :
         \E retrieved \in search(collection, model, s_far, k, NoFilter),
            llm \in FrameLLMInputs :
           /\ args' = <<s_far, k, retrieved, llm>>
           /\ result' = rag_generate_strategy(retrieved, llm)
    /\ op' = "rag.generate_strategy"
    /\ UNCHANGED <<scenario, collection, model>>

NextFrame == NextIndex \/ Decide

SpecFrame == InitIndex /\ [][NextFrame]_vars

\* C29: search, get_by_id, stats and the engine's generate_strategy, whether it
\* returns or raises at any of its steps, leave every entry of the index as it
\* was (and the encoder too, so that a repeated call retrieves from the same
\* evidence).
C29_ReadsLeaveIndex ==
    [][op' \in {"search", "get_by_id", "stats", "rag.generate_strategy"}
          => collection' = collection /\ model' = model]_vars

C29_Witness ==
    /\ op = "rag.generate_strategy"
    /\ result.kind = "raise"
    /\ result.exc = "ConnectionError"
    /\ stored_ids(collection) = {"a", "b"}

-----------------------------------------------------------------------------
(* One call of the engine, step by step (SpecCall, SpecCallFair)           *)

\* a call that has not ended: the step it is at and the calls made so far
Pending(at, calls) == [kind |-> "pending", at |-> at, calls |-> calls]

At(step) == op = "rag.generate_strategy" /\ result.kind = "pending" /\ result.at = step

\* the engine before a call, on an empty index or on one with an entry
InitCall ==
    /\ scenario = <<>>
    /\ op = "none"
    /\ args = <<>>
    /\ result = <<>>
    /\ collection \in {<<>>, ingest_scenario(<<>>, encoder_0, s_far, "b")}
    /\ model = encoder_0

\* rag.generate_strategy(scenario, k) is entered
CallGenerateStrategy ==
    /\ op = "none"
    /\ \E s \in {s_ver, s_far}, k \in {1, 5} :
         /\ scenario' = s
         /\ args' = <<k>>
    /\ op' = "rag.generate_strategy"
    /\ result' = Pending("search", <<>>)
    /\ UNCHANGED <<collection, model>>

\* lines 385-388: the search, and the raise on an empty result
StepSearch ==
    /\ At("search")
    /\ \E retrieved \in search(collection, model, scenario, args[1], NoFilter) :
         IF retrieved = <<>>
         THEN /\ result' = rag_generate_strategy(retrieved, [kind |-> "none"])
              /\ args' = args
         ELSE /\ result' = Pending("build_prompt", <<"search">>)
              /\ args' = Append(args, retrieved)
    /\ UNCHANGED <<scenario, op, collection, model>>

\* lines 391-394 and 304-313: the prompt is built and posted; requests.post is
\* given no timeout, so the call now waits for the service
StepPost ==
    /\ At("build_prompt")
    /\ result' = Pending("query_ollama", <<"search", "build_prompt", "query_ollama">>)
    /\ UNCHANGED <<scenario, op, args, collection, model>>

\* the service answers, or the request fails: a step of the service and the
\* network, which the engine can only wait for
ServiceResponds ==
    /\ At("query_ollama")
    /\ \E llm \in LLMInputs :
         /\ args' = Append(args, llm)
         /\ result' = IF llm.kind = "error"
                      THEN rag_generate_strategy(args[2], llm)
                      ELSE Pending("parse_llm_response", result.calls)
    /\ UNCHANGED <<scenario, op, collection, model>>

\* lines 397-403: the response is parsed and the result completed
StepParse ==
    /\ At("parse_llm_response")
    /\ result' = rag_generate_strategy(args[2], args[3])
    /\ UNCHANGED <<scenario, op, args, collection, model>>

NextCall == CallGenerateStrategy \/ StepSearch \/ StepPost \/ ServiceResponds \/ StepParse

SpecCall == InitCall /\ [][NextCall]_vars

\* the interpreter runs the engine's own steps; nothing makes the service answer
SpecCallFair ==
    /\ SpecCall
    /\ WF_vars(StepSearch)
    /\ WF_vars(StepPost)
    /\ WF_vars(StepParse)

Ended == op = "rag.generate_strategy" /\ result.kind \in {"return", "raise"}

\* C23 as stated: a call of the engine's generate_strategy whose reasoning
\* service never answers does not block for ever: it ends, with a failure,
\* whatever the service does.
C23_AsStated == At("query_ollama") ~> Ended

-----------------------------------------------------------------------------
(* Threads that ingest and search on one database (SpecWriters)            *)

Writers == {"w1", "w2"}

WriterIdInputs == {"a", "b", "c"}

WriterScenarioInputs == {s_ver, s_ham, s_far}

\* the vector a call took from a field the threads share: that of another call
\* that has embedded and not yet added, when there is one
writer_entry_shared_embedding(calls, w) ==
    LET others == {v \in Writers \ {w} : calls[v].at = "add"}
        last == IF others = {} THEN w ELSE CHOOSE v \in others : TRUE
    IN  [id |-> calls[w].scenario_id,
         embedding |-> calls[last].embedding,
         document |-> dumps(calls[w].scenario),
         metadata |-> metadata_of(calls[w].scenario)]

\* vectordb.py lines 64-77: the record collection.add is given, from the
\* arguments and the local embedding of the call of thread w
writer_entry(calls, w) ==
    [id |-> calls[w].scenario_id,
     embedding |-> calls[w].embedding,
     document |-> dumps(calls[w].scenario),
     metadata |-> metadata_of(calls[w].scenario)]

\* the ids of the calls made so far
ids_in_use(calls) == {calls[w].scenario_id : w \in {v \in Writers : calls[v].at # "idle"}}

\* args holds the frame of each thread's ingest_scenario call
InitWriters ==
    /\ scenario = <<>>
    /\ op = "none"
    /\ args = [w \in Writers |-> [at |-> "idle"]]
    /\ result = <<>>
    /\ collection = <<>>
    /\ model = encoder_0

\* lines 52-61: thread w enters ingest_scenario(scenario, scenario_id), with an
\* id no other call has, and computes the embedding
WriterEmbed(w) ==
    /\ args[w].at = "idle"
    /\ \E s \in WriterScenarioInputs, scenario_id \in WriterIdInputs \ ids_in_use(args) :
         args' = [args EXCEPT ![w] = [at |-> "add", scenario |-> s,
                                      scenario_id |-> scenario_id,
                                      embedding |-> embed(model, s)]]
    /\ UNCHANGED <<scenario, op, result, collection, model>>

\* lines 64-77: thread w's collection.add, one call of the collection
WriterAdd(w) ==
    /\ args[w].at = "add"
    /\ collection' = collection_add(collection, writer_entry(args, w))
    /\ args' = [args EXCEPT ![w].at = "done"]
    /\ UNCHANGED <<scenario, op, result, model>>

\* a search of another thread between the steps of the writers
ConcurrentSearch ==
    /\ \E query_scenario \in {s_ver, s_far}, k \in KInputs :
         /\ scenario' = query_scenario
         /\ \E found \in search(collection, model, query_scenario, k, NoFilter) :
                result' = Returned(found, <<>>)
    /\ op' = "search"
    /\ UNCHANGED <<args, collection, model>>

NextWriters ==
    \/ \E w \in Writers : WriterEmbed(w)
    \/ \E w \in Writers : WriterAdd(w)
    \/ ConcurrentSearch

SpecWriters == InitWriters /\ [][NextWriters]_vars

\* the entry is what the call of thread w, and no other, was given and computed
FromCallOf(entry, w) ==
    /\ args[w].at = "done"
    /\ entry.id = args[w].scenario_id
    /\ entry.embedding = embed(model, args[w].scenario)
    /\ entry.document = dumps(args[w].scenario)
    /\ entry.metadata = metadata_of(args[w].scenario)

\* C22: when two threads call ingest_scenario with distinct ids, interleaved
\* with searches, the index has exactly one entry for every id whose call has
\* ended, each entry has the vector, document and metadata of one and the same
\* call, and every search returns only complete entries of the index.
C22_ConcurrentIngest ==
    /\ \A i, j \in DOMAIN collection : collection[i].id = collection[j].id => i = j
    /\ \A i \in DOMAIN collection : \E w \in Writers : FromCallOf(collection[i], w)
    /\ \A w \in Writers :
          args[w].at = "done" => \E i \in DOMAIN collection : FromCallOf(collection[i], w)
    /\ op = "search" =>
          \A n \in DOMAIN result.value :
             \E i \in DOMAIN collection :
                /\ result.value[n].id = collection[i].id
                /\ result.value[n].scenario = loads(collection[i].document)
                /\ result.value[n].metadata = collection[i].metadata
                /\ result.value[n].similarity =
                       similarity(distance(embed(model, scenario), collection[i].embedding))

C22_Witness ==
    /\ \A w \in Writers : args[w].at = "done"
    /\ Len(collection) = 2
    /\ op = "search"
    /\ scenario = s_far
    /\ Len(result.value) = 1
    /\ args["w1"].scenario = s_far
    /\ args["w2"].scenario = s_ver
    /\ result.value[1].id = args["w2"].scenario_id

====
